---------------------------- MODULE Spec2Model ----------------------------
(***************************************************************************)
(* A model of the Coinbase Pro exchange client of rotki                    *)
(* (src/rotkehlchen/exchanges/coinbasepro.py) and of the deletion of       *)
(* Ethereum transactions from its database (src/rotkehlchen/db/ethtx.py),  *)
(* of the receipts stored there, and of the asset search                   *)
(* (src/rotkehlchen/db/search_assets.py).                                  *)
(*                                                                         *)
(* These specifications share the definitions of this module:              *)
(*   SpecApi       one _api_query call, one step per HTTP request or       *)
(*                 response;                                               *)
(*   SpecPage      one _paginated_query generator, one step per _api_query *)
(*                 call;                                                   *)
(*   Spec          a client's lifetime: the high-level operations, one     *)
(*                 step per _api_query call they make;                     *)
(*   SpecWindow    the history operations over records around the time     *)
(*                 window;                                                 *)
(*   SpecBalances  query_balances over a wider range of remote accounts;   *)
(*   SpecRecords   the three operations over records that fail to parse;   *)
(*   SpecDetails   the movements of transfers with and without details;    *)
(*   SpecFills     the trades of fills that differ in every field;         *)
(*   SpecPair      coinbasepro_to_worldpair over product codes;            *)
(*   SpecSession   two callers of _api_query on one session;               *)
(*   SpecCredentials  edit_exchange_credentials between requests;          *)
(*   SpecDb        DBEthTx.delete_transactions over small databases;       *)
(*   SpecReceipt   add_receipt_data, get_receipt and                       *)
(*                 get_transaction_hashes_no_receipt;                      *)
(*   SpecSearch    search_assets_levenshtein over small query results.     *)
(***************************************************************************)
EXTENDS Integers, Sequences, FiniteSets, TLC

VARIABLES
    \* ---- one _api_query call (SpecApi) ----
    endpoint,        \* the endpoint argument
    secret_ok,       \* whether b64decode(self.secret) succeeds
    retry_limit,     \* CachedSettings().get_query_retry_limit()
    retries_left,    \* the local retries_left
    response,        \* the local response (NoResponse before the first one)
    api_pc,          \* position in _api_query
    api_outcome,     \* how the call ended
    headers_signed,  \* whether CB-ACCESS-SIGN / CB-ACCESS-TIMESTAMP were updated
    received,        \* history: the responses received by this call, in order
    \* ---- one _paginated_query generator ----
    gen,             \* its locals: endpoint, query_options, limit, position, pages yielded
    calls,           \* history: the _api_query calls made, [endpoint, query_options]
    \* ---- the client object ----
    account_to_currency,     \* self.account_to_currency
    first_connection_made,   \* self.first_connection_made
    available_products,      \* self.available_products
    msg_aggregator,          \* the messages added since the operation began
    \* ---- the high-level operation in progress, or the last one ----
    op,              \* its name
    pc,              \* its position
    start_ts,        \* its arguments
    end_ts,
    local,           \* its locals
    ret,             \* what it returned or raised
    api_error,       \* history: the exception an _api_query call of it raised, or None
    \* ---- the session shared by the callers of _api_query (SpecSession) ----
    session_headers, \* self.session.headers
    api_key,         \* self.api_key
    callers,         \* the locals of each caller's _api_query call
    sent,            \* history: the requests sent, with the headers they carried
    clock,           \* int(time.time())
    edits,           \* history: the arguments of edit_exchange_credentials, in order
    \* ---- the database (SpecDb) ----
    db,              \* its tables
    db_before,       \* history: the tables when delete_transactions was last called
    db_call,         \* history: the address it was last called with, or None
    \* ---- the receipts in the database (SpecReceipt) ----
    conn,            \* the receipt tables as self.db.conn sees them
    committed,       \* the receipt tables as of the last commit
    added,           \* history: per hash, the data of its first add_receipt_data that returned
    failed,          \* history: the hashes an add_receipt_data raised for
    last_call,       \* history: the last call, its argument and what it returned or raised
    \* ---- one search_assets_levenshtein call (SpecSearch) ----
    search,          \* its arguments, the setting and the rows its queries give, in order
    search_result    \* what it returned

apiVars == <<endpoint, secret_ok, retry_limit, retries_left, response, api_pc,
             api_outcome, headers_signed, received>>

pageVars == <<gen, calls>>

clientVars == <<account_to_currency, first_connection_made, available_products,
                msg_aggregator>>

opVars == <<op, pc, start_ts, end_ts, local, ret, api_error>>

sessionVars == <<session_headers, api_key, callers, sent, clock, edits>>

dbVars == <<db, db_before, db_call>>

receiptVars == <<conn, committed, added, failed, last_call>>

searchVars == <<search, search_result>>

vars == <<apiVars, pageVars, clientVars, opVars, sessionVars, dbVars, receiptVars, searchVars>>

--------------------------------------------------------------------------
(* Values *)

Last(s) == s[Len(s)]

None == "None"            \* Python's None
Missing == "<missing>"    \* a key that is absent from a JSON object
Unbound == "<unbound>"    \* a local variable that was never assigned
NoResponse == [unbound |-> TRUE]   \* the local response before its first assignment

\* HTTP status codes (http.HTTPStatus)
OK == 200
BAD_REQUEST == 400
FORBIDDEN == 403
TOO_MANY_REQUESTS == 429
INTERNAL_SERVER_ERROR == 500

Statuses == {OK, BAD_REQUEST, FORBIDDEN, TOO_MANY_REQUESTS, INTERNAL_SERVER_ERROR}

\* The largest configured query retry limit considered.
MaxRetryLimit == 3

\* A response body: a JSON list, a JSON object (with or without a 'message'
\* key), or text that is not JSON.
INVALID_SIGNATURE == "invalid signature"
ApiBodies ==
    {[kind |-> "list", message |-> Missing, items |-> <<>>],
     [kind |-> "dict", message |-> INVALID_SIGNATURE, items |-> <<>>],
     [kind |-> "dict", message |-> "Invalid Passphrase", items |-> <<>>],
     [kind |-> "dict", message |-> Missing, items |-> <<>>],
     [kind |-> "not_json", message |-> Missing, items |-> <<>>]}

Cursors == {None, "c1", "c2"}

ApiResponses == [status : Statuses, body : ApiBodies, cursor : Cursors]

ApiEndpoints == {"accounts", "products", "transfers"}

--------------------------------------------------------------------------
(* _api_query *)

\* 'products' not in endpoint: the endpoints that are signed
IsSigned(ep) == ep # "products"

\* A retry loop that forgets to count the 429 responses.
RetriesAfter429_NoDecrement(n) == n

\* retries_left -= 1
RetriesAfter429(n) == n - 1

\* jsonloads_dict(response.text) / json_ret['message']
IsJsonDict(body) == body.kind = "dict"
IsJsonList(body) == body.kind = "list"

\* An interpretation that treats 403 like any other error status.
InterpretResponse_ForbiddenIsRemoteError(r) ==
    IF r = NoResponse THEN [kind |-> "UnboundLocalError"]
    ELSE IF r.status = BAD_REQUEST /\ ~IsJsonDict(r.body)
        THEN [kind |-> "JSONDecodeError"]
    ELSE IF r.status = BAD_REQUEST /\ r.body.message = Missing
        THEN [kind |-> "KeyError"]
    ELSE IF r.status = BAD_REQUEST /\ r.body.message = INVALID_SIGNATURE
        THEN [kind |-> "CoinbaseProPermissionError"]
    ELSE IF r.status # OK
        THEN [kind |-> "RemoteError"]
    ELSE IF ~IsJsonList(r.body)
        THEN [kind |-> "RemoteError"]
    ELSE [kind |-> "return", result |-> r.body.items, cursor |-> r.cursor]

\* The code after the retry loop: what the call does with the last response.
InterpretResponse(r) ==
    IF r = NoResponse THEN [kind |-> "UnboundLocalError"]
    ELSE IF r.status = BAD_REQUEST /\ ~IsJsonDict(r.body)
        THEN [kind |-> "JSONDecodeError"]
    ELSE IF r.status = BAD_REQUEST /\ r.body.message = Missing
        THEN [kind |-> "KeyError"]
    ELSE IF r.status = BAD_REQUEST /\ r.body.message = INVALID_SIGNATURE
        THEN [kind |-> "CoinbaseProPermissionError"]
    ELSE IF r.status = FORBIDDEN
        THEN [kind |-> "CoinbaseProPermissionError"]
    ELSE IF r.status # OK
        THEN [kind |-> "RemoteError"]
    ELSE IF ~IsJsonList(r.body)
        THEN [kind |-> "RemoteError"]
    ELSE [kind |-> "return", result |-> r.body.items, cursor |-> r.cursor]

NoOutcome == [kind |-> "none"]

\* Lines 195-224: build the message, sign it unless the endpoint is public,
\* read the retry limit.
ApiSign ==
    /\ api_pc = "sign"
    /\ IF IsSigned(endpoint) /\ ~secret_ok
       THEN /\ api_outcome' = [kind |-> "RemoteError"]
            /\ api_pc' = "done"
            /\ UNCHANGED <<retries_left, headers_signed>>
       ELSE /\ headers_signed' = IsSigned(endpoint)
            /\ retries_left' = retry_limit
            /\ api_pc' = "loop"
            /\ UNCHANGED api_outcome
    /\ UNCHANGED <<endpoint, secret_ok, retry_limit, response, received>>
    /\ UNCHANGED <<pageVars, clientVars, opVars, sessionVars, dbVars, receiptVars, searchVars>>

\* One iteration of the retry loop whose request gets a response.
ApiRequest(r) ==
    /\ api_pc = "loop"
    /\ retries_left > 0
    /\ response' = r
    /\ received' = Append(received, r)
    /\ IF r.status = TOO_MANY_REQUESTS
       THEN /\ retries_left' = RetriesAfter429(retries_left)
            /\ api_pc' = "loop"
       ELSE /\ api_pc' = "interpret"
            /\ UNCHANGED retries_left
    /\ UNCHANGED <<endpoint, secret_ok, retry_limit, api_outcome, headers_signed>>
    /\ UNCHANGED <<pageVars, clientVars, opVars, sessionVars, dbVars, receiptVars, searchVars>>

\* One iteration whose request raises requests.exceptions.RequestException.
ApiConnectionError ==
    /\ api_pc = "loop"
    /\ retries_left > 0
    /\ api_outcome' = [kind |-> "RemoteError"]
    /\ api_pc' = "done"
    /\ UNCHANGED <<endpoint, secret_ok, retry_limit, retries_left, response,
                   headers_signed, received>>
    /\ UNCHANGED <<pageVars, clientVars, opVars, sessionVars, dbVars, receiptVars, searchVars>>

\* while retries_left > 0 is false: the loop is left without a break.
ApiLoopExhausted ==
    /\ api_pc = "loop"
    /\ retries_left <= 0
    /\ api_pc' = "interpret"
    /\ UNCHANGED <<endpoint, secret_ok, retry_limit, retries_left, response,
                   api_outcome, headers_signed, received>>
    /\ UNCHANGED <<pageVars, clientVars, opVars, sessionVars, dbVars, receiptVars, searchVars>>

\* Lines 256-285.
ApiInterpret ==
    /\ api_pc = "interpret"
    /\ api_outcome' = InterpretResponse(response)
    /\ api_pc' = "done"
    /\ UNCHANGED <<endpoint, secret_ok, retry_limit, retries_left, response,
                   headers_signed, received>>
    /\ UNCHANGED <<pageVars, clientVars, opVars, sessionVars, dbVars, receiptVars, searchVars>>

\* What one whole _api_query call can end with, when the last response it
\* interprets is drawn from responses: the interpretation of that response, or
\* the RemoteError of a connection failure or of an undecodable secret.
ApiQueryOutcomes(responses) ==
    {InterpretResponse(r) : r \in responses} \cup {[kind |-> "RemoteError"]}

\* The responses whose JSON list body is one of pages.
ResponsesWith(pages, cursors) ==
    {[status |-> st, body |-> b, cursor |-> c] :
        st \in Statuses,
        b \in (ApiBodies \ {x \in ApiBodies : x.kind = "list"}) \cup
              {[kind |-> "list", message |-> Missing, items |-> p] : p \in pages},
        c \in cursors}

Raises(o) == o.kind # "return"

--------------------------------------------------------------------------
(* _paginated_query *)

\* A stop test that wants both conditions instead of either.
PaginationEnds_Both(result, after_cursor, limit) ==
    after_cursor = None /\ Len(result) < limit

\* if after_cursor is None or len(result) < limit: break
PaginationEnds(result, after_cursor, limit) ==
    after_cursor = None \/ Len(result) < limit

IdleGenerator == [pc |-> "idle"]

\* Lines 386-388: the generator before its first request.
NewGenerator(ep, fixed, limit) ==
    [endpoint |-> ep,
     query_options |-> [fixed |-> fixed, limit |-> limit, after |-> Missing],
     limit |-> limit,
     pc |-> "call",
     pages |-> <<>>]

\* One turn of the while loop (lines 390-395): o is what _api_query ended with.
\* The consumers of this generator are for loops that run it to exhaustion, so
\* the yield and the resumption after it are one step.
GeneratorNext(g, o) ==
    IF Raises(o) THEN [g EXCEPT !.pc = "raised"]
    ELSE LET yielded == [g EXCEPT !.pages = Append(@, [result |-> o.result,
                                                        after_cursor |-> o.cursor])]
         IN IF PaginationEnds(o.result, o.cursor, g.limit)
            THEN [yielded EXCEPT !.pc = "done"]
            ELSE [yielded EXCEPT !.query_options.after = o.cursor]

\* The _api_query call the generator makes next.
GeneratorCall(g) == [endpoint |-> g.endpoint, query_options |-> g.query_options]

\* The largest limit argument, the longest page and the most requests of one
\* generator considered.
MaxLimit == 2
MaxPageLen == 3
MaxPages == 3

PageItems(n) == [i \in 1..n |-> "record"]
PagePages == {PageItems(n) : n \in 0..MaxPageLen}
PageFixedOptions == {[status |-> "done"], [type |-> "withdraw"]}

PageQuery(o) ==
    /\ gen.pc = "call"
    /\ Len(calls) < MaxPages
    /\ calls' = Append(calls, GeneratorCall(gen))
    /\ gen' = GeneratorNext(gen, o)
    /\ UNCHANGED <<apiVars, clientVars, opVars, sessionVars, dbVars, receiptVars, searchVars>>

--------------------------------------------------------------------------
(* Remote JSON records and the collaborators that read them *)

\* A field of a JSON object: present with a value, absent (reading it raises
\* KeyError), null, or present with a value its deserializer rejects.
Val(x) == [k |-> "val", v |-> x]
Absent == [k |-> "missing", v |-> None]
Null == [k |-> "null", v |-> None]
Bad == [k |-> "bad", v |-> None]

\* rotki's assets
A_BTC == "A_BTC"
A_ETH == "A_ETH"
A_USD == "A_USD"
A_DAI == "A_DAI"
Assets == {A_BTC, A_ETH, A_USD, A_DAI}

\* asset.asset_type == AssetType.EVM_TOKEN
IsEvmToken(asset) == asset = A_DAI

\* asset_from_coinbasepro: the asset of a currency code, or the exception
\* raised for a code rotki does not know ("XXX" stands for such a code) or
\* does not support ("YYY").
AssetFromCoinbasepro(code) ==
    CASE code = "BTC" -> A_BTC
      [] code = "ETH" -> A_ETH
      [] code = "USD" -> A_USD
      [] code = "DAI" -> A_DAI
      [] code = "YYY" -> "UnsupportedAsset"
      [] OTHER -> "UnknownAsset"

\* Inquirer().find_usd_price: a price Val(p), or RemoteError
PriceFails == [k |-> "RemoteError", v |-> None]

--------------------------------------------------------------------------
(* create_or_return_account_to_currency_map *)

\* self.account_to_currency: None, or a dict kept as a set of <<id, asset>>
NoMap == [none |-> TRUE, map |-> {}]
MapOf(m) == [none |-> FALSE, map |-> m]

MapHas(m, id) == \E e \in m : e[1] = id
MapGet(m, id) == (CHOOSE e \in m : e[1] = id)[2]
MapPut(m, id, asset) == {e \in m : e[1] # id} \cup {<<id, asset>>}

\* The body of the for loop of lines 293-314 for one account: the map and the
\* messages after it.
AccountMapStep(st, account) ==
    IF account.currency.k # "val"
    THEN [st EXCEPT !.msgs = Append(@, "warning: account entry with missing field")]
    ELSE LET asset == AssetFromCoinbasepro(account.currency.v) IN
         IF asset = "UnsupportedAsset"
         THEN [st EXCEPT !.msgs = Append(@, "warning: account with unsupported asset")]
         ELSE IF asset = "UnknownAsset"
         THEN [st EXCEPT !.msgs = Append(@, "warning: account with unknown asset")]
         ELSE IF account.id.k # "val"
         THEN [st EXCEPT !.msgs = Append(@, "warning: account entry with missing field")]
         ELSE [st EXCEPT !.map = MapPut(@, account.id.v, asset)]

RECURSIVE AccountMapLoop(_, _)
AccountMapLoop(st, accounts) ==
    IF accounts = <<>> THEN st
    ELSE AccountMapLoop(AccountMapStep(st, Head(accounts)), Tail(accounts))

\* A lookup that never finds the cache filled.
CacheFilled_Never(cache) == FALSE

\* if self.account_to_currency is not None
CacheFilled(cache) == ~cache.none

\* The whole method, given what its _api_query('accounts') call ends with if it
\* is made: the cache after it, the messages it adds, whether it made the
\* call, and the exception it raises or None.
CreateOrReturnMap(cache, o) ==
    IF CacheFilled(cache)
    THEN [cache |-> cache, msgs |-> <<>>, called |-> FALSE, exc |-> None]
    ELSE IF Raises(o)
    THEN [cache |-> cache, msgs |-> <<>>, called |-> TRUE, exc |-> o.kind]
    ELSE LET st == AccountMapLoop([map |-> {}, msgs |-> <<>>], o.result)
         IN [cache |-> MapOf(st.map), msgs |-> st.msgs, called |-> TRUE, exc |-> None]

--------------------------------------------------------------------------
(* query_balances *)

\* A loop body that stores the account's balance instead of adding it.
AddBalance_Overwrite(balances, asset, amount, usd_value) ==
    {b \in balances : b.asset # asset} \cup
    {[asset |-> asset, amount |-> amount, usd_value |-> usd_value]}

\* assets_balance[asset] += Balance(amount=amount, usd_value=amount * usd_price)
\* on a defaultdict(Balance), kept as a set of one record per asset
AddBalance(balances, asset, amount, usd_value) ==
    LET old == IF \E b \in balances : b.asset = asset
               THEN CHOOSE b \in balances : b.asset = asset
               ELSE [asset |-> asset, amount |-> 0, usd_value |-> 0]
    IN {b \in balances : b.asset # asset} \cup
       {[asset |-> asset, amount |-> old.amount + amount,
         usd_value |-> old.usd_value + usd_value]}

\* The body of the for loop of lines 329-376 for one account; price is what
\* find_usd_price gives for it if asked.
BalanceStep(st, account, price) ==
    IF account.balance.k # "val"
    THEN [st EXCEPT !.msgs = Append(@, "error: processing account balance")]
    ELSE IF account.balance.v = 0 THEN st
    ELSE IF account.currency.k # "val"
    THEN [st EXCEPT !.msgs = Append(@, "error: processing account balance")]
    ELSE LET asset == AssetFromCoinbasepro(account.currency.v) IN
         IF asset = "UnknownAsset"
         THEN [st EXCEPT !.msgs = Append(@, "warning: balance with unknown asset")]
         ELSE IF asset = "UnsupportedAsset"
         THEN [st EXCEPT !.msgs = Append(@, "warning: balance with unsupported asset")]
         ELSE IF price.k # "val"
         THEN [st EXCEPT !.msgs = Append(@, "error: inability to query USD price")]
         ELSE [st EXCEPT !.balances = AddBalance(@, asset, account.balance.v,
                                                 account.balance.v * price.v)]

RECURSIVE BalanceLoop(_, _, _)
BalanceLoop(st, accounts, prices) ==
    IF accounts = <<>> THEN st
    ELSE BalanceLoop(BalanceStep(st, Head(accounts), Head(prices)),
                     Tail(accounts), Tail(prices))

\* A query_balances without the try block around its _api_query call.
QueryBalancesResult_NoTry(o, prices) ==
    IF Raises(o)
    THEN [kind |-> "raise", value |-> None, msg |-> "", exc |-> o.kind, msgs |-> <<>>]
    ELSE LET st == BalanceLoop([balances |-> {}, msgs |-> <<>>], o.result, prices)
         IN [kind |-> "return", value |-> st.balances, msg |-> "", exc |-> None,
             msgs |-> st.msgs]

\* The whole method, given what its _api_query('accounts') call ends with and
\* the prices the inquirer has for the accounts: what it returns or raises,
\* and the messages it adds.
QueryBalancesResult(o, prices) ==
    IF o.kind \in {"CoinbaseProPermissionError", "RemoteError"}
    THEN [kind |-> "return", value |-> None, msg |-> "Coinbase Pro API request failed",
          exc |-> None, msgs |-> <<>>]
    ELSE IF Raises(o)
    THEN [kind |-> "raise", value |-> None, msg |-> "", exc |-> o.kind, msgs |-> <<>>]
    ELSE LET st == BalanceLoop([balances |-> {}, msgs |-> <<>>], o.result, prices)
         IN [kind |-> "return", value |-> st.balances, msg |-> "", exc |-> None,
             msgs |-> st.msgs]

--------------------------------------------------------------------------
(* first_connection *)

\* self.available_products = {0}: the integer 0, which is no product code
INITIAL_PRODUCTS == {<<"0">>}

\* A bootstrap that never considers itself done.
FirstConnectionDone_Never(made) == FALSE

\* if self.first_connection_made: return
FirstConnectionDone(made) == made

\* The whole method, given what its _api_query('products') call ends with if
\* it is made: the flag and the products after it, whether it made the call,
\* and the exception it raises or None. A listed product without an 'id'
\* makes the set comprehension raise KeyError before anything is assigned.
FirstConnection(made, products, o) ==
    IF FirstConnectionDone(made)
    THEN [made |-> made, products |-> products, called |-> FALSE, exc |-> None]
    ELSE IF Raises(o)
    THEN [made |-> made, products |-> products, called |-> TRUE, exc |-> o.kind]
    ELSE IF \E i \in 1..Len(o.result) : o.result[i].id.k # "val"
    THEN [made |-> made, products |-> products, called |-> TRUE, exc |-> "KeyError"]
    ELSE [made |-> TRUE, products |-> {o.result[i].id.v : i \in 1..Len(o.result)},
          called |-> TRUE, exc |-> None]

--------------------------------------------------------------------------
(* query_online_deposits_withdrawals: the loop over raw_movements *)

DEPOSIT == "deposit"
WITHDRAWAL == "withdrawal"

\* deserialize_asset_movement_category
MovementCategory(type) == IF type = "deposit" THEN DEPOSIT ELSE WITHDRAWAL

\* Lines 441-452: address, transaction id and fee out of entry['details'].
\* Each with block stops at the first key that is missing (suppress(KeyError))
\* and keeps what it assigned before; a key present with null is read as None.
\* exc is the DeserializationError of an undeserializable fee, or the
\* TypeError of subscripting a details that is not an object, which
\* suppress(KeyError) lets through.
ReadDetails(entry, category) ==
    LET nothing == [address |-> Null, transaction_id |-> Null, fee |-> 0, exc |-> None]
        d == entry.details
    IN IF d.k = "missing" THEN nothing
       ELSE IF d.k # "val" THEN [nothing EXCEPT !.exc = "TypeError"]
       ELSE IF category = DEPOSIT
       THEN IF d.v.crypto_address.k = "missing" THEN nothing
            ELSE IF d.v.crypto_transaction_hash.k = "missing"
            THEN [nothing EXCEPT !.address = d.v.crypto_address]
            ELSE [nothing EXCEPT !.address = d.v.crypto_address,
                                 !.transaction_id = d.v.crypto_transaction_hash]
       ELSE IF d.v.sent_to_address.k = "missing" THEN nothing
            ELSE IF d.v.crypto_transaction_hash.k = "missing"
            THEN [nothing EXCEPT !.address = d.v.sent_to_address]
            ELSE IF d.v.fee.k = "missing"
            THEN [nothing EXCEPT !.address = d.v.sent_to_address,
                                 !.transaction_id = d.v.crypto_transaction_hash]
            ELSE IF d.v.fee.k # "val"
            THEN [nothing EXCEPT !.exc = "DeserializationError"]
            ELSE [address |-> d.v.sent_to_address,
                  transaction_id |-> d.v.crypto_transaction_hash,
                  fee |-> d.v.fee.v, exc |-> None]

\* A prefix put in front of every transaction id, whatever the asset.
PrefixTransactionId_Always(txid, asset) ==
    IF txid.k = "val" /\ txid.v # <<>> THEN Val(<<"0x">> \o txid.v) ELSE txid

\* Lines 454-455: '0x' + transaction_id for ETH and EVM tokens; a string is a
\* sequence of its pieces, the empty string (which is falsy) the empty sequence
PrefixTransactionId(txid, asset) ==
    IF txid.k = "val" /\ txid.v # <<>> /\ (asset = A_ETH \/ IsEvmToken(asset))
    THEN Val(<<"0x">> \o txid.v)
    ELSE txid

\* deserialize_asset_amount_force_positive
ForcePositive(n) == IF n < 0 THEN -n ELSE n

\* A window test that leaves out the lower boundary.
OutsideWindow_ExclusiveStart(timestamp, start, end) ==
    timestamp <= start \/ timestamp > end

\* if timestamp < start_ts or timestamp > end_ts: continue
OutsideWindow(timestamp, start, end) == timestamp < start \/ timestamp > end

MovementError == "error: failed to deserialize deposit/withdrawal"

\* The body of the for loop of lines 418-488 for one entry. st holds
\* movements, msgs and exc (an exception that no except clause of the loop
\* catches and that leaves the method).
MovementStep(st, entry, map, start, end) ==
    IF st.exc # None THEN st
    ELSE IF entry.completed_at.k \in {"missing", "null"} THEN st
    ELSE IF entry.completed_at.k # "val"
    THEN [st EXCEPT !.msgs = Append(@, MovementError)]
    ELSE IF OutsideWindow(entry.completed_at.v, start, end) THEN st
    ELSE IF entry.type.k # "val" \/ entry.account_id.k = "missing"
    THEN [st EXCEPT !.msgs = Append(@, MovementError)]
    ELSE IF entry.account_id.k # "val" THEN st
    ELSE IF ~MapHas(map, entry.account_id.v) THEN st
    ELSE LET category == MovementCategory(entry.type.v)
             asset == MapGet(map, entry.account_id.v)
             det == ReadDetails(entry, category)
         IN IF det.exc = "TypeError" THEN [st EXCEPT !.exc = det.exc]
            ELSE IF det.exc # None \/ entry.amount.k # "val" \/ entry.id.k = "missing"
            THEN [st EXCEPT !.msgs = Append(@, MovementError)]
            ELSE [st EXCEPT !.movements = Append(@,
                    [category |-> category,
                     address |-> det.address,
                     transaction_id |-> PrefixTransactionId(det.transaction_id, asset),
                     timestamp |-> entry.completed_at.v,
                     asset |-> asset,
                     amount |-> ForcePositive(entry.amount.v),
                     fee_asset |-> asset,
                     fee |-> det.fee,
                     link |-> entry.id.v])]

\* A loop that goes through raw_movements from its end to its start.
RECURSIVE MovementLoop_Reversed(_, _, _, _, _)
MovementLoop_Reversed(st, raw_movements, map, start, end) ==
    IF raw_movements = <<>> THEN st
    ELSE MovementStep(MovementLoop_Reversed(st, Tail(raw_movements), map, start, end),
                      Head(raw_movements), map, start, end)

\* Line 418: for entry in raw_movements
RECURSIVE MovementLoop(_, _, _, _, _)
MovementLoop(st, raw_movements, map, start, end) ==
    IF raw_movements = <<>> THEN st
    ELSE MovementLoop(MovementStep(st, Head(raw_movements), map, start, end),
                      Tail(raw_movements), map, start, end)

--------------------------------------------------------------------------
(* query_online_trade_history: the loops over orders and fills *)

\* product.split('-'): a product code is the sequence of its pieces, "-" the
\* separator; the parts are the runs of pieces between separators
RECURSIVE SplitProduct(_, _, _)
SplitProduct(product, parts, current) ==
    IF product = <<>> THEN Append(parts, current)
    ELSE IF Head(product) = "-"
    THEN SplitProduct(Tail(product), Append(parts, current), <<>>)
    ELSE SplitProduct(Tail(product), parts, Append(current, Head(product)))

\* The string a part spells: a single piece is that currency code; no other
\* run of pieces (the empty one included) is a code rotki knows.
PartCode(part) == IF Len(part) = 1 THEN part[1] ELSE "unknown"

\* A conversion that accepts any product of two parts or more.
WorldPair_AtLeastTwo(product) ==
    LET parts == SplitProduct(product, <<>>, <<>>) IN
    IF Len(parts) < 2
    THEN [exc |-> "UnprocessableTradePair", base |-> None, quote |-> None]
    ELSE LET base == AssetFromCoinbasepro(PartCode(parts[1]))
             quote == AssetFromCoinbasepro(PartCode(parts[2]))
         IN IF base \notin Assets THEN [exc |-> base, base |-> None, quote |-> None]
            ELSE IF quote \notin Assets THEN [exc |-> quote, base |-> None, quote |-> None]
            ELSE [exc |-> None, base |-> base, quote |-> quote]

\* coinbasepro_to_worldpair
WorldPair(product) ==
    LET parts == SplitProduct(product, <<>>, <<>>) IN
    IF Len(parts) # 2
    THEN [exc |-> "UnprocessableTradePair", base |-> None, quote |-> None]
    ELSE LET base == AssetFromCoinbasepro(PartCode(parts[1]))
             quote == AssetFromCoinbasepro(PartCode(parts[2]))
         IN IF base \notin Assets THEN [exc |-> base, base |-> None, quote |-> None]
            ELSE IF quote \notin Assets THEN [exc |-> quote, base |-> None, quote |-> None]
            ELSE [exc |-> None, base |-> base, quote |-> quote]

TradeError == "error: failed to deserialize trade"

\* TradeType.deserialize
BUY == "TradeType.BUY"
SELL == "TradeType.SELL"
DeserializeTradeType(side) ==
    CASE side = "buy" -> BUY
      [] side = "sell" -> SELL
      [] OTHER -> "DeserializationError"

\* A trade whose fee is in the base asset.
TradeOf_FeeInBase(fill, base, quote) ==
    [timestamp |-> fill.created_at.v,
     base_asset |-> base,
     quote_asset |-> quote,
     trade_type |-> DeserializeTradeType(fill.side.v),
     amount |-> fill.size.v,
     rate |-> fill.price.v,
     fee |-> fill.fee.v,
     fee_currency |-> base,
     link |-> <<fill.trade_id.v, "_", fill.order_id.v>>]

\* Lines 560-572: the Trade built from a fill whose fields all deserialize
TradeOf(fill, base, quote) ==
    [timestamp |-> fill.created_at.v,
     base_asset |-> base,
     quote_asset |-> quote,
     trade_type |-> DeserializeTradeType(fill.side.v),
     amount |-> fill.size.v,
     rate |-> fill.price.v,
     fee |-> fill.fee.v,
     fee_currency |-> quote,
     link |-> <<fill.trade_id.v, "_", fill.order_id.v>>]

\* The body of the for loop of lines 553-598 for one fill. A null created_at
\* makes raw_time.endswith raise AttributeError and an order_id that is not a
\* string makes the concatenation of the link raise TypeError; no except
\* clause of the loop catches either.
FillStep(st, fill, base, quote, start, end) ==
    IF st.exc # None THEN st
    ELSE IF fill.created_at.k = "null" THEN [st EXCEPT !.exc = "AttributeError"]
    ELSE IF fill.created_at.k # "val" THEN [st EXCEPT !.msgs = Append(@, TradeError)]
    ELSE IF OutsideWindow(fill.created_at.v, start, end) THEN st
    ELSE IF \/ fill.side.k # "val" \/ fill.size.k # "val" \/ fill.price.k # "val"
            \/ fill.fee.k # "val" \/ fill.trade_id.k = "missing"
            \/ fill.order_id.k = "missing"
    THEN [st EXCEPT !.msgs = Append(@, TradeError)]
    ELSE IF DeserializeTradeType(fill.side.v) = "DeserializationError"
    THEN [st EXCEPT !.msgs = Append(@, TradeError)]
    ELSE IF fill.order_id.k # "val" THEN [st EXCEPT !.exc = "TypeError"]
    ELSE [st EXCEPT !.trades = Append(@, TradeOf(fill, base, quote))]

RECURSIVE FillLoop(_, _, _, _, _, _)
FillLoop(st, fills, base, quote, start, end) ==
    IF fills = <<>> THEN st
    ELSE FillLoop(FillStep(st, Head(fills), base, quote, start, end),
                  Tail(fills), base, quote, start, end)

\* Lines 539-598: what the order loop does with the fills of one product, once
\* they are all fetched. st holds trades, msgs and exc (an exception that
\* leaves the method).
ProductStep(st, product, fills, start, end) ==
    LET pair == WorldPair(product) IN
    IF pair.exc = "UnprocessableTradePair"
    THEN [st EXCEPT !.msgs = Append(@, "warning: unprocessable pair")]
    ELSE IF pair.exc = "UnknownAsset"
    THEN [st EXCEPT !.msgs = Append(@, "warning: unknown asset")]
    ELSE IF pair.exc # None
    THEN [st EXCEPT !.exc = pair.exc]
    ELSE FillLoop(st, fills, pair.base, pair.quote, start, end)

\* Lines 512-531: the order loop from order i on, up to the next order whose
\* product needs its fills queried. st holds msgs, queried_product_ids,
\* next (the order to go on with) and product (the product to query, or Null
\* when the loop has run out of orders).
\* An order loop that does not remember the products it has queried.
RECURSIVE OrderLoop_NoDedup(_, _, _, _)
OrderLoop_NoDedup(st, orders, i, available) ==
    IF i > Len(orders) THEN [st EXCEPT !.product = Null, !.next = i]
    ELSE LET product_id == orders[i].product_id IN
         IF product_id.k # "val"
         THEN OrderLoop_NoDedup([st EXCEPT !.msgs = Append(@, "error: order lacks a product_id")],
                                orders, i + 1, available)
         ELSE IF product_id.v \notin available
         THEN OrderLoop_NoDedup(st, orders, i + 1, available)
         ELSE [st EXCEPT !.queried_product_ids = @ \cup {product_id.v},
                         !.product = product_id, !.next = i + 1]

RECURSIVE OrderLoop(_, _, _, _)
OrderLoop(st, orders, i, available) ==
    IF i > Len(orders) THEN [st EXCEPT !.product = Null, !.next = i]
    ELSE LET product_id == orders[i].product_id IN
         IF product_id.k # "val"
         THEN OrderLoop([st EXCEPT !.msgs = Append(@, "error: order lacks a product_id")],
                        orders, i + 1, available)
         ELSE IF product_id.v \in st.queried_product_ids \/ product_id.v \notin available
         THEN OrderLoop(st, orders, i + 1, available)
         ELSE [st EXCEPT !.queried_product_ids = @ \cup {product_id.v},
                         !.product = product_id, !.next = i + 1]

--------------------------------------------------------------------------
(* The session: its headers, the callers of _api_query that share it, and
   edit_exchange_credentials *)

Callers == {1, 2}
Other(c) == CHOOSE d \in Callers : d # c

INITIAL_API_KEY == "k0"
INITIAL_PASSPHRASE == "p0"
NoSignature == <<>>
NoTimestamp == -1

\* Lines 124-128: the headers __init__ sets (Content-Type left out);
\* CB-ACCESS-SIGN and CB-ACCESS-TIMESTAMP are not set yet
InitialHeaders ==
    [key |-> INITIAL_API_KEY, passphrase |-> INITIAL_PASSPHRASE,
     sign |-> NoSignature, timestamp |-> NoTimestamp]

IdleCaller ==
    [pc |-> "idle", endpoint |-> None, message |-> <<>>, retries_left |-> 0,
     alone |-> TRUE]

SessionConstructed ==
    /\ session_headers = InitialHeaders
    /\ api_key = INITIAL_API_KEY
    /\ callers = [c \in Callers |-> IdleCaller]
    /\ sent = {}
    /\ clock = 0
    /\ edits = <<>>

\* Line 223: CachedSettings().get_query_retry_limit()
QUERY_RETRY_LIMIT == 2

\* The most requests a run sends, the last second of the clock and the most
\* credential edits of a run
MaxSent == 3
MaxClock == 1
MaxEdits == 2

\* Lines 195-206: timestamp + request_method + request_url + stringified_options
Message(timestamp, ep) == <<timestamp, "GET", ep, "">>

\* Lines 209-213 and 219: the encoded HMAC of the message under the secret;
\* different messages have different signatures
Signature(message) == <<"hmac-sha256", message>>

\* A header update that leaves the signature as it was.
SignedHeaders_TimestampOnly(headers, message) ==
    [headers EXCEPT !.timestamp = message[1]]

\* Lines 218-221: self.session.headers.update(...)
SignedHeaders(headers, message) ==
    [headers EXCEPT !.sign = Signature(message), !.timestamp = message[1]]

InProgress(c) == callers[c].pc # "idle"

\* Lines 195-224 for caller c: build the message, sign it unless the endpoint
\* is public, read the retry limit. alone records whether the call has had
\* the session to itself.
SessionSign(c, ep) ==
    /\ callers[c].pc = "idle"
    /\ Cardinality(sent) < MaxSent
    /\ LET message == Message(clock, ep) IN
        /\ session_headers' = IF IsSigned(ep) THEN SignedHeaders(session_headers, message)
                                              ELSE session_headers
        /\ callers' = [d \in Callers |->
                          IF d = c
                          THEN [pc |-> "request", endpoint |-> ep, message |-> message,
                                retries_left |-> QUERY_RETRY_LIMIT,
                                alone |-> ~InProgress(Other(c))]
                          ELSE [callers[d] EXCEPT !.alone = @ /\ ~InProgress(d)]]
    /\ UNCHANGED <<api_key, sent, clock, edits>>
    /\ UNCHANGED <<apiVars, pageVars, clientVars, opVars, dbVars, receiptVars, searchVars>>

\* Lines 225-249 for caller c: self.session.request(...) sends the request
\* with the headers the session has now; a 429 sends the caller to sleep.
SessionRequest(c, too_many) ==
    /\ callers[c].pc = "request"
    /\ Cardinality(sent) < MaxSent
    /\ sent' = sent \cup {[endpoint |-> callers[c].endpoint,
                            message |-> callers[c].message,
                            retry |-> callers[c].retries_left < QUERY_RETRY_LIMIT,
                            alone |-> callers[c].alone,
                            headers |-> session_headers,
                            edits |-> Len(edits)]}
    /\ callers' = [callers EXCEPT ![c] = IF too_many THEN [@ EXCEPT !.pc = "sleep"]
                                                     ELSE IdleCaller]
    /\ UNCHANGED <<session_headers, api_key, clock, edits>>
    /\ UNCHANGED <<apiVars, pageVars, clientVars, opVars, dbVars, receiptVars, searchVars>>

\* Lines 249-250 and 225 for caller c: gevent.sleep returns, retries_left -= 1,
\* and the loop goes on while retries_left > 0
SessionWake(c) ==
    /\ callers[c].pc = "sleep"
    /\ LET left == RetriesAfter429(callers[c].retries_left) IN
        callers' = [callers EXCEPT ![c] =
                        IF left > 0 THEN [@ EXCEPT !.pc = "request", !.retries_left = left]
                        ELSE IdleCaller]
    /\ UNCHANGED <<session_headers, api_key, sent, clock, edits>>
    /\ UNCHANGED <<apiVars, pageVars, clientVars, opVars, dbVars, receiptVars, searchVars>>

\* A second passes
Tick ==
    /\ clock < MaxClock
    /\ clock' = clock + 1
    /\ UNCHANGED <<session_headers, api_key, callers, sent, edits>>
    /\ UNCHANGED <<apiVars, pageVars, clientVars, opVars, dbVars, receiptVars, searchVars>>

\* ExchangeInterface.edit_exchange_credentials: self.api_key after it
SuperEditExchangeCredentials(key, credentials) ==
    IF credentials.api_key # None THEN credentials.api_key ELSE key

\* Lines 130-131: update_passphrase
UpdatePassphrase(headers, new_passphrase) ==
    [headers EXCEPT !.passphrase = new_passphrase]

\* An update that writes both headers whatever the credentials hold.
EditedHeaders_Always(headers, credentials, key) ==
    [headers EXCEPT !.key = credentials.api_key, !.passphrase = credentials.passphrase]

\* Lines 135-138: the headers after edit_exchange_credentials; key is
\* self.api_key after the call of line 134
EditedHeaders(headers, credentials, key) ==
    LET keyed == IF credentials.api_key # None THEN [headers EXCEPT !.key = key]
                                               ELSE headers
    IN IF credentials.passphrase # None
       THEN UpdatePassphrase(keyed, credentials.passphrase)
       ELSE keyed

\* Lines 133-140: edit_exchange_credentials(credentials)
EditExchangeCredentials(credentials) ==
    /\ Len(edits) < MaxEdits
    /\ api_key' = SuperEditExchangeCredentials(api_key, credentials)
    /\ session_headers' = EditedHeaders(session_headers, credentials, api_key')
    /\ edits' = Append(edits, credentials)
    /\ UNCHANGED <<callers, sent, clock>>
    /\ UNCHANGED <<apiVars, pageVars, clientVars, opVars, dbVars, receiptVars, searchVars>>

--------------------------------------------------------------------------
(* The database of Ethereum transactions *)

NoTables ==
    [used_query_ranges |-> {}, ethereum_transactions |-> {},
     ethtx_address_mappings |-> {}, ethtx_receipts |-> {}, evm_tx_mappings |-> {},
     history_events |-> {}]

DbUnused ==
    /\ db = NoTables
    /\ db_before = NoTables
    /\ db_call = None

HISTORY_MAPPING_DECODED == "decoded"

\* f'ethtxs_{address}'
RangeName(address) == <<"ethtxs_", address>>

\* x.hex(), the form a transaction hash has as an event identifier
Hex(tx_hash) == <<"0x", tx_hash>>

\* A selection of every transaction the address is mapped to.
TouchedOnlyBy_Any(tables, address) ==
    {m[2] : m \in {x \in tables.ethtx_address_mappings : x[1] = address}}

\* Lines 380-386: the hashes mapped to the address and to no other address
TouchedOnlyBy(tables, address) ==
    {m[2] : m \in {x \in tables.ethtx_address_mappings :
                      /\ x[1] = address
                      /\ \A y \in tables.ethtx_address_mappings :
                            y[2] = x[2] => y[1] = address}}

\* DBHistoryEvents.delete_events_by_tx_hash: the events of the hashes go,
\* except those that are customized
DeleteEventsByTxHash(events, tx_hashes) ==
    {e \in events : e.customized \/ e.event_identifier \notin {Hex(t) : t \in tx_hashes}}

\* The rows that go with the rows deleted from ethereum_transactions
\* (ON DELETE CASCADE)
CascadeDelete(tables, deleted) ==
    [tables EXCEPT !.ethereum_transactions = @ \ deleted,
                   !.ethtx_address_mappings = {m \in @ : m[2] \notin deleted},
                   !.ethtx_receipts = @ \ deleted,
                   !.evm_tx_mappings = {m \in @ : m[1] \notin deleted}]

\* Lines 376-398: the tables after delete_transactions(address)
DeleteTransactions(tables, address) ==
    LET ranged == [tables EXCEPT !.used_query_ranges = @ \ {RangeName(address)}]
        tx_hashes == TouchedOnlyBy(ranged, address)
        cleared == [ranged EXCEPT !.history_events = DeleteEventsByTxHash(@, tx_hashes)]
        deleted == {t \in tx_hashes :
                      Hex(t) \notin {e.event_identifier : e \in cleared.history_events}}
        cascaded == CascadeDelete(cleared, deleted)
    IN [cascaded EXCEPT !.evm_tx_mappings =
            {m \in @ : ~(m[1] \in tx_hashes /\ m[2] = "ETH"
                                             /\ m[3] = HISTORY_MAPPING_DECODED)}]

\* delete_transactions(address) is called
DeleteTransactionsCall(address) ==
    /\ db' = DeleteTransactions(db, address)
    /\ db_before' = db
    /\ db_call' = address
    /\ UNCHANGED <<apiVars, pageVars, clientVars, opVars, sessionVars, receiptVars, searchVars>>

--------------------------------------------------------------------------
(* The receipts of Ethereum transactions: add_receipt_data, get_receipt,
   get_transaction_hashes_no_receipt *)

\* The stored transactions
ReceiptHashes == {1, 2}

NoReceipts ==
    [ethereum_transactions |-> ReceiptHashes, ethtx_receipts |-> {},
     ethtx_receipt_logs |-> {}, ethtx_receipt_log_topics |-> {}]

NoCall == [op |-> None, arg |-> 0, again |-> FALSE, kind |-> "none", exc |-> None,
           receipt |-> <<>>, hashes |-> {}]

ReceiptsUnused ==
    /\ conn = NoReceipts
    /\ committed = NoReceipts
    /\ added = [h \in ReceiptHashes |-> Absent]
    /\ failed = {}
    /\ last_call = NoCall

\* hexstr_to_int
HexstrToInt(hexstr) ==
    CASE hexstr = "0x0" -> 0
      [] hexstr = "0x1" -> 1
      [] hexstr = "0x2" -> 2

\* hexstring_to_bytes
HexstringToBytes(hexstring) == <<"bytes", hexstring>>

\* deserialize_ethereum_address: the checksummed form of the address
ChecksumAddress(address) ==
    CASE address = "0xabc" -> "0xAbC"
      [] address = "0xdef" -> "0xDeF"
      [] OTHER -> address

\* Python's int(bool) and bool(int)
IntOfBool(b) == IF b THEN 1 ELSE 0
BoolOfInt(n) == n # 0

\* Lines 283-291: the receipt row of data, or the exception raised before
\* the row is inserted
ReceiptRow(data) ==
    LET tx_type == HexstrToInt(IF data.type.k = "val" THEN data.type.v ELSE "0x0")
        status == IF data.status.k = "val" THEN data.status.v ELSE 1
    IN IF data.contractAddress.k = "missing" THEN [exc |-> "KeyError", row |-> <<>>]
       ELSE IF data.contractAddress.k = "bad"
       THEN [exc |-> "DeserializationError", row |-> <<>>]
       ELSE [exc |-> None,
             row |-> [tx_hash |-> data.transactionHash.v,
                      contract_address |->
                          IF data.contractAddress.k = "null" THEN None
                          ELSE ChecksumAddress(data.contractAddress.v),
                      status |-> status,
                      type |-> tx_type]]

\* Lines 302-307: enumerate(log_entry['topics'])
TopicTuples(tx_hash, log_index, topics) ==
    [i \in 1..Len(topics) |->
        [tx_hash |-> tx_hash, log_index |-> log_index,
         topic |-> HexstringToBytes(topics[i]), topic_index |-> i - 1]]

\* Lines 298-313: the loop over data['logs']. st holds log_tuples,
\* topic_tuples and the exception that ended the loop.
RECURSIVE LogTuples(_, _, _)
LogTuples(st, tx_hash, logs) ==
    IF logs = <<>> THEN st
    ELSE LET log_entry == Head(logs) IN
         IF log_entry.data.k = "missing" THEN [st EXCEPT !.exc = "KeyError"]
         ELSE IF log_entry.address.k = "bad"
         THEN [st EXCEPT !.exc = "DeserializationError"]
         ELSE LogTuples(
                [st EXCEPT
                    !.log_tuples = Append(@,
                        [tx_hash |-> tx_hash,
                         log_index |-> log_entry.logIndex,
                         data |-> HexstringToBytes(log_entry.data.v),
                         address |-> ChecksumAddress(log_entry.address.v),
                         removed |-> IntOfBool(log_entry.removed)]),
                    !.topic_tuples = @ \o TopicTuples(tx_hash, log_entry.logIndex,
                                                      log_entry.topics)],
                tx_hash, Tail(logs))

\* cursor.executemany('INSERT INTO ethtx_receipt_logs ...'): the rows go in
\* one by one; a row whose (tx_hash, log_index) is there already raises and
\* the rows before it stay in the transaction
RECURSIVE InsertLogs(_, _)
InsertLogs(table, rows) ==
    IF rows = <<>> THEN [table |-> table, exc |-> None]
    ELSE IF \E r \in table : /\ r.tx_hash = Head(rows).tx_hash
                             /\ r.log_index = Head(rows).log_index
    THEN [table |-> table, exc |-> "DatabaseError"]
    ELSE InsertLogs(table \cup {Head(rows)}, Tail(rows))

\* cursor.executemany('INSERT INTO ethtx_receipt_log_topics ...')
RECURSIVE InsertTopics(_, _)
InsertTopics(table, rows) ==
    IF rows = <<>> THEN [table |-> table, exc |-> None]
    ELSE IF \E r \in table : /\ r.tx_hash = Head(rows).tx_hash
                             /\ r.log_index = Head(rows).log_index
                             /\ r.topic_index = Head(rows).topic_index
    THEN [table |-> table, exc |-> "DatabaseError"]
    ELSE InsertTopics(table \cup {Head(rows)}, Tail(rows))

HasReceipt(tables, tx_hash) == \E r \in tables.ethtx_receipts : r.tx_hash = tx_hash

\* Lines 283-329: what add_receipt_data(data) does to the tables the
\* connection sees, and the exception it raises (None when it reaches the
\* commit of line 332). Nothing is rolled back when it raises.
AddReceipt(tables, data) ==
    LET receipt == ReceiptRow(data) IN
    IF receipt.exc # None THEN [tables |-> tables, exc |-> receipt.exc]
    ELSE IF HasReceipt(tables, receipt.row.tx_hash)
    THEN [tables |-> tables, exc |-> "DatabaseError"]
    ELSE LET inserted == [tables EXCEPT !.ethtx_receipts = @ \cup {receipt.row}]
             tuples == LogTuples([log_tuples |-> <<>>, topic_tuples |-> <<>>, exc |-> None],
                                 receipt.row.tx_hash, data.logs)
         IN IF tuples.exc # None THEN [tables |-> inserted, exc |-> tuples.exc]
            ELSE LET logs == InsertLogs(inserted.ethtx_receipt_logs, tuples.log_tuples)
                     logged == [inserted EXCEPT !.ethtx_receipt_logs = logs.table]
                 IN IF logs.exc # None THEN [tables |-> logged, exc |-> logs.exc]
                    ELSE LET topics == InsertTopics(logged.ethtx_receipt_log_topics,
                                                    tuples.topic_tuples)
                         IN [tables |-> [logged EXCEPT
                                            !.ethtx_receipt_log_topics = topics.table],
                             exc |-> topics.exc]

\* add_receipt_data(data) is called
AddReceiptData(data) ==
    LET tx_hash == data.transactionHash.v
        result == AddReceipt(conn, data)
    IN /\ conn' = result.tables
       /\ committed' = IF result.exc = None THEN result.tables ELSE committed
       /\ added' = IF result.exc = None /\ added[tx_hash] = Absent
                   THEN [added EXCEPT ![tx_hash] = Val(data)] ELSE added
       /\ failed' = IF result.exc # None THEN failed \cup {tx_hash} ELSE failed
       /\ last_call' = [NoCall EXCEPT !.op = "add_receipt_data", !.arg = tx_hash,
                                      !.again = added[tx_hash] # Absent,
                                      !.kind = IF result.exc = None THEN "return" ELSE "raise",
                                      !.exc = result.exc]
       /\ UNCHANGED <<apiVars, pageVars, clientVars, opVars, sessionVars, dbVars,
                 searchVars>>

\* A selection of the topics by descending topic index.
RECURSIVE SelectTopics_Descending(_)
SelectTopics_Descending(rows) ==
    IF rows = {} THEN <<>>
    ELSE LET first == CHOOSE r \in rows : \A o \in rows : r.topic_index >= o.topic_index
         IN <<first.topic>> \o SelectTopics_Descending(rows \ {first})

\* Lines 357-363: SELECT topic ... ORDER BY topic_index ASC over the topic
\* rows of one log
RECURSIVE SelectTopics(_)
SelectTopics(rows) ==
    IF rows = {} THEN <<>>
    ELSE LET first == CHOOSE r \in rows : \A o \in rows : r.topic_index <= o.topic_index
         IN <<first.topic>> \o SelectTopics(rows \ {first})

\* The orders in which a SELECT without ORDER BY may give the rows
RowOrders(rows) ==
    {order \in [1..Cardinality(rows) -> rows] :
        \A i, j \in 1..Cardinality(rows) : i # j => order[i] # order[j]}

\* Lines 335-369: the receipt get_receipt(tx_hash) builds, the log rows
\* coming in the given order
Receipt(tables, tx_hash, order) ==
    LET row == CHOOSE r \in tables.ethtx_receipts : r.tx_hash = tx_hash IN
    [tx_hash |-> tx_hash,
     contract_address |-> row.contract_address,
     status |-> BoolOfInt(row.status),
     type |-> row.type,
     logs |-> [i \in 1..Len(order) |->
                [log_index |-> order[i].log_index,
                 data |-> order[i].data,
                 address |-> order[i].address,
                 removed |-> BoolOfInt(order[i].removed),
                 topics |-> SelectTopics({t \in tables.ethtx_receipt_log_topics :
                                             /\ t.tx_hash = tx_hash
                                             /\ t.log_index = order[i].log_index})]]]

LogRows(tables, tx_hash) == {l \in tables.ethtx_receipt_logs : l.tx_hash = tx_hash}

\* get_receipt(tx_hash) is called
GetReceipt(tx_hash) ==
    /\ \E order \in RowOrders(LogRows(conn, tx_hash)) :
          last_call' = IF HasReceipt(conn, tx_hash)
                       THEN [NoCall EXCEPT !.op = "get_receipt", !.arg = tx_hash,
                                           !.kind = "return",
                                           !.receipt = Receipt(conn, tx_hash, order)]
                       ELSE [NoCall EXCEPT !.op = "get_receipt", !.arg = tx_hash,
                                           !.kind = "return_none"]
    /\ UNCHANGED <<conn, committed, added, failed>>
    /\ UNCHANGED <<apiVars, pageVars, clientVars, opVars, sessionVars, dbVars,
                 searchVars>>

\* Lines 219-246: get_transaction_hashes_no_receipt(None, None) is called
GetTransactionHashesNoReceipt ==
    /\ last_call' = [NoCall EXCEPT !.op = "get_transaction_hashes_no_receipt",
                                   !.kind = "return",
                                   !.hashes = {h \in conn.ethereum_transactions :
                                                  ~HasReceipt(conn, h)}]
    /\ UNCHANGED <<conn, committed, added, failed>>
    /\ UNCHANGED <<apiVars, pageVars, clientVars, opVars, sessionVars, dbVars,
                 searchVars>>

--------------------------------------------------------------------------
(* search_assets_levenshtein *)

\* A string is the sequence of its characters.
ETH_IDENTIFIER == "ETH"      \* A_ETH.identifier
ETH2_IDENTIFIER == "ETH2"    \* A_ETH2.identifier

NotSearched == [k |-> "missing", v |-> <<>>]

SearchUnused ==
    /\ search = Absent
    /\ search_result = NotSearched

\* str.casefold() of one character
CasefoldChar(c) ==
    CASE c = "E" -> "e"
      [] c = "T" -> "t"
      [] c = "H" -> "h"
      [] OTHER -> c

Casefold(str) == [i \in 1..Len(str) |-> CasefoldChar(str[i])]

Min(a, b) == IF a <= b THEN a ELSE b

\* The edit distance of two strings: the least number of insertions,
\* deletions and substitutions of one character that turn one into the other
RECURSIVE Levenshtein(_, _)
Levenshtein(a, b) ==
    IF a = <<>> THEN Len(b)
    ELSE IF b = <<>> THEN Len(a)
    ELSE IF Head(a) = Head(b) THEN Levenshtein(Tail(a), Tail(b))
    ELSE 1 + Min(Levenshtein(Tail(a), Tail(b)),
                 Min(Levenshtein(Tail(a), b), Levenshtein(a, Tail(b))))

LEV_DIST_START == 100

\* lev_dist_min after the two 'is not None' blocks of a row
LevDistMin(substring_search, first, second) ==
    LET after_first == IF first # Null
                       THEN Min(LEV_DIST_START, Levenshtein(substring_search, Casefold(first.v)))
                       ELSE LEV_DIST_START
    IN IF second # Null
       THEN Min(after_first, Levenshtein(substring_search, Casefold(second.v)))
       ELSE after_first

\* ChainID.deserialize_from_db(entry[3]).to_name()
ChainName(chain) == IF chain = 1 THEN "ethereum" ELSE "optimism"

\* resolved_eth = A_ETH.resolve_to_crypto_asset()
ResolvedEth == [identifier |-> ETH_IDENTIFIER, name |-> Val(<<"E", "t", "h">>),
                symbol |-> Val(<<"E", "T", "H">>)]

\* The dict of an entry; a key the dict does not have is Absent
EntryInfo(identifier, name, symbol, collection_name, asset_type, evm_chain, custom) ==
    [identifier |-> identifier, name |-> name, symbol |-> symbol,
     collection_name |-> collection_name, asset_type |-> asset_type,
     evm_chain |-> evm_chain, custom_asset_type |-> custom]

EthInfo ==
    EntryInfo(ResolvedEth.identifier, ResolvedEth.name, ResolvedEth.symbol, Absent,
              "own chain", Absent, Absent)

AssetInfo(entry) ==
    EntryInfo(entry.identifier, entry.name, entry.symbol, Absent, entry.asset_type,
              IF entry.evm_chain # Null THEN Val(ChainName(entry.evm_chain.v)) ELSE Absent,
              IF entry.custom_asset_type # Null THEN entry.custom_asset_type ELSE Absent)

NftInfo(entry) ==
    EntryInfo(entry.identifier, entry.name, Absent, entry.collection_name, "nft",
              Absent, Absent)

Scored(lev_dist_min, entry_info) == [score |-> lev_dist_min, info |-> entry_info]

\* _search_only_nfts_levenstein over the rows the nfts query gives
RECURSIVE SearchOnlyNfts(_, _)
SearchOnlyNfts(rows, substring_search) ==
    IF rows = <<>> THEN <<>>
    ELSE LET entry == Head(rows)
             lev_dist_min == LevDistMin(substring_search, entry.name, entry.collection_name)
         IN <<Scored(lev_dist_min, NftInfo(entry))>>
                \o SearchOnlyNfts(Tail(rows), substring_search)

\* The loop of _search_only_assets_levenstein over the rows the assets query gives
RECURSIVE SearchOnlyAssets(_, _, _, _)
SearchOnlyAssets(rows, substring_search, treat_eth2_as_eth, found_eth) ==
    IF rows = <<>> THEN <<>>
    ELSE LET entry == Head(rows)
             lev_dist_min == LevDistMin(substring_search, entry.name, entry.symbol)
         IN IF treat_eth2_as_eth /\ entry.identifier \in {ETH_IDENTIFIER, ETH2_IDENTIFIER}
            THEN (IF ~found_eth THEN <<Scored(lev_dist_min, EthInfo)>> ELSE <<>>)
                    \o SearchOnlyAssets(Tail(rows), substring_search, treat_eth2_as_eth, TRUE)
            ELSE <<Scored(lev_dist_min, AssetInfo(entry))>>
                    \o SearchOnlyAssets(Tail(rows), substring_search, treat_eth2_as_eth,
                                        found_eth)

\* The list as it is, unsorted.
Unsorted(search_results) == search_results

\* item put into a list sorted by score, before the first item whose score
\* is not less
RECURSIVE InsertByScore(_, _)
InsertByScore(item, sorted) ==
    IF sorted = <<>> THEN <<item>>
    ELSE IF Head(sorted).score >= item.score THEN <<item>> \o sorted
    ELSE <<Head(sorted)>> \o InsertByScore(item, Tail(sorted))

\* sorted(search_result, key=lambda item: item[0]): a stable sort
RECURSIVE SortedByScore(_)
SortedByScore(search_results) ==
    IF search_results = <<>> THEN <<>>
    ELSE InsertByScore(Head(search_results), SortedByScore(Tail(search_results)))

\* sorted_search_result[:limit] for a limit that is None or not negative
Sliced(sorted_search_result, limit) ==
    IF limit # Null
    THEN SubSeq(sorted_search_result, 1, Min(limit.v, Len(sorted_search_result)))
    ELSE sorted_search_result

SearchAssetsLevenshtein(args) ==
    LET assets == SearchOnlyAssets(args.assets, args.substring_search,
                                   args.treat_eth2_as_eth, FALSE)
        search_results == IF args.search_nfts
                          THEN assets \o SearchOnlyNfts(args.nfts, args.substring_search)
                          ELSE assets
        sorted == SortedByScore(search_results)
        sorted_search_result == [i \in 1..Len(sorted) |-> sorted[i].info]
    IN Sliced(sorted_search_result, args.limit)

\* search_assets_levenshtein(db, filter_query, limit, search_nfts) runs
SearchAssetsLevenshteinCall ==
    /\ search # Absent
    /\ search_result = NotSearched
    /\ search_result' = Val(SearchAssetsLevenshtein(search.v))
    /\ UNCHANGED <<search, apiVars, pageVars, clientVars, opVars, sessionVars, dbVars,
                   receiptVars>>

--------------------------------------------------------------------------
(* Specifications *)

\* What ExchangeInterface.__init__ leaves in first_connection_made.
FIRST_CONNECTION_MADE_INITIALLY == FALSE

\* The client after __init__ (lines 103-128).
ClientConstructed ==
    /\ account_to_currency = NoMap
    /\ first_connection_made = FIRST_CONNECTION_MADE_INITIALLY
    /\ available_products = INITIAL_PRODUCTS
    /\ msg_aggregator = <<>>

EmptyLocal ==
    [accounts |-> <<>>, prices |-> <<>>, raw_movements |-> <<>>, orders |-> <<>>,
     fills |-> <<>>, trades |-> <<>>, queried_product_ids |-> {}, product |-> Null,
     next |-> 1, received |-> 0, fetched |-> <<>>]

NoReturn == [kind |-> "none", value |-> None, exc |-> None]
Returned(v) == [kind |-> "return", value |-> v, exc |-> None]
Raised(e) == [kind |-> "raise", value |-> None, exc |-> e]

NoOperation ==
    /\ op = None
    /\ pc = "idle"
    /\ start_ts = 0
    /\ end_ts = 0
    /\ local = EmptyLocal
    /\ ret = NoReturn
    /\ api_error = None

Idle == pc = "idle"

\* COINBASEPRO_PAGINATION_LIMIT, scaled down from 100
COINBASEPRO_PAGINATION_LIMIT == 2

\* The most records the remote side serves to one operation through its
\* paginated queries, and the longest list it serves for 'accounts' and
\* 'products'.
MaxRecords == 3
MaxListed == 2

SeqsUpTo(S, n) == UNION {[1..k -> S] : k \in 0..n}

AccountsCall == [endpoint |-> "accounts", query_options |-> None]
ProductsCall == [endpoint |-> "products", query_options |-> None]

--------------------------------------------------------------------------
(* The operations of the client, one step per _api_query call *)

\* The caller takes what the operation returned or raised, and the messages.
Return ==
    /\ pc = "done"
    /\ op' = None
    /\ pc' = "idle"
    /\ start_ts' = 0 /\ end_ts' = 0
    /\ local' = EmptyLocal
    /\ ret' = NoReturn
    /\ api_error' = None
    /\ msg_aggregator' = <<>>
    /\ calls' = <<>>
    /\ gen' = IdleGenerator
    /\ UNCHANGED <<account_to_currency, first_connection_made, available_products,
                   apiVars,
                   sessionVars, dbVars, receiptVars, searchVars>>

\* create_or_return_account_to_currency_map(), called on its own
CreateMapCall(o) ==
    /\ Idle
    /\ LET r == CreateOrReturnMap(account_to_currency, o) IN
        /\ account_to_currency' = r.cache
        /\ msg_aggregator' = r.msgs
        /\ calls' = IF r.called THEN <<AccountsCall>> ELSE <<>>
        /\ ret' = IF r.exc = None THEN Returned(r.cache.map) ELSE Raised(r.exc)
        /\ api_error' = r.exc
    /\ op' = "create_or_return_account_to_currency_map"
    /\ pc' = "done"
    /\ start_ts' = 0 /\ end_ts' = 0
    /\ local' = EmptyLocal
    /\ gen' = IdleGenerator
    /\ UNCHANGED <<first_connection_made, available_products, apiVars,
                   sessionVars, dbVars, receiptVars, searchVars>>

\* first_connection(), called on its own
FirstConnectionCall(o) ==
    /\ Idle
    /\ LET r == FirstConnection(first_connection_made, available_products, o) IN
        /\ first_connection_made' = r.made
        /\ available_products' = r.products
        /\ calls' = IF r.called THEN <<ProductsCall>> ELSE <<>>
        /\ ret' = IF r.exc = None THEN Returned(None) ELSE Raised(r.exc)
        /\ api_error' = IF r.called /\ Raises(o) THEN o.kind ELSE None
    /\ op' = "first_connection"
    /\ pc' = "done"
    /\ start_ts' = 0 /\ end_ts' = 0
    /\ local' = EmptyLocal
    /\ gen' = IdleGenerator
    /\ msg_aggregator' = <<>>
    /\ UNCHANGED <<account_to_currency, apiVars,
                   sessionVars, dbVars, receiptVars, searchVars>>

\* query_balances(): one _api_query call and the loop over its accounts.
\* (Its decorators, a lock and a time-based response cache, are not part of
\* this file.)
QueryBalancesCall(o, prices) ==
    /\ Idle
    /\ LET r == QueryBalancesResult(o, prices) IN
        /\ ret' = IF r.kind = "return"
                  THEN Returned([balances |-> r.value, msg |-> r.msg])
                  ELSE Raised(r.exc)
        /\ msg_aggregator' = r.msgs
    /\ api_error' = IF Raises(o) THEN o.kind ELSE None
    /\ calls' = <<AccountsCall>>
    /\ local' = [EmptyLocal EXCEPT !.accounts = IF Raises(o) THEN <<>> ELSE o.result,
                                   !.prices = prices]
    /\ op' = "query_balances"
    /\ pc' = "done"
    /\ start_ts' = 0 /\ end_ts' = 0
    /\ gen' = IdleGenerator
    /\ UNCHANGED <<account_to_currency, first_connection_made, available_products,
                   apiVars,
                   sessionVars, dbVars, receiptVars, searchVars>>

\* query_online_deposits_withdrawals(start_ts, end_ts) is called
StartMovements(w) ==
    /\ Idle
    /\ op' = "query_online_deposits_withdrawals"
    /\ pc' = "withdraw"
    /\ start_ts' = w[1] /\ end_ts' = w[2]
    /\ local' = EmptyLocal
    /\ ret' = NoReturn
    /\ api_error' = None
    /\ msg_aggregator' = <<>>
    /\ calls' = <<>>
    /\ gen' = NewGenerator("transfers", [type |-> "withdraw"],
                           COINBASEPRO_PAGINATION_LIMIT)
    /\ UNCHANGED <<account_to_currency, first_connection_made, available_products,
                   apiVars,
                   sessionVars, dbVars, receiptVars, searchVars>>

\* Lines 406-415: one _api_query call of the two paginated 'transfers' queries
MovementsPage(o) ==
    /\ pc \in {"withdraw", "deposit"}
    /\ IF Raises(o) THEN TRUE ELSE local.received + Len(o.result) <= MaxRecords
    /\ calls' = Append(calls, GeneratorCall(gen))
    /\ LET g == GeneratorNext(gen, o) IN
        IF g.pc = "raised"
        THEN /\ gen' = g
             /\ pc' = "done"
             /\ ret' = Raised(o.kind)
             /\ api_error' = o.kind
             /\ UNCHANGED local
        ELSE /\ local' = [local EXCEPT !.raw_movements = @ \o o.result,
                                       !.received = @ + Len(o.result)]
             /\ UNCHANGED <<ret, api_error>>
             /\ IF g.pc = "call"
                THEN gen' = g /\ UNCHANGED pc
                ELSE IF pc = "withdraw"
                THEN /\ gen' = NewGenerator("transfers", [type |-> "deposit"],
                                            COINBASEPRO_PAGINATION_LIMIT)
                     /\ pc' = "deposit"
                ELSE gen' = g /\ pc' = "map"
    /\ UNCHANGED <<clientVars, op, start_ts, end_ts, apiVars,
                   sessionVars, dbVars, receiptVars, searchVars>>

\* Lines 417-490: the account map is fetched or taken from the cache, and the
\* loop over raw_movements runs
MovementsMap(o) ==
    /\ pc = "map"
    /\ LET r == CreateOrReturnMap(account_to_currency, o) IN
        /\ account_to_currency' = r.cache
        /\ calls' = IF r.called THEN Append(calls, AccountsCall) ELSE calls
        /\ api_error' = r.exc
        /\ IF r.exc # None
           THEN /\ ret' = Raised(r.exc)
                /\ UNCHANGED msg_aggregator
           ELSE LET st == MovementLoop([movements |-> <<>>, msgs |-> <<>>,
                                        exc |-> None],
                                       local.raw_movements, r.cache.map,
                                       start_ts, end_ts)
                IN /\ ret' = IF st.exc = None THEN Returned(st.movements)
                                              ELSE Raised(st.exc)
                   /\ msg_aggregator' = msg_aggregator \o r.msgs \o st.msgs
    /\ pc' = "done"
    /\ UNCHANGED <<first_connection_made, available_products, op, start_ts, end_ts,
                   local, gen, apiVars,
                   sessionVars, dbVars, receiptVars, searchVars>>

\* query_online_trade_history(start_ts, end_ts) is called
StartTrades(w) ==
    /\ Idle
    /\ op' = "query_online_trade_history"
    /\ pc' = "first_connection"
    /\ start_ts' = w[1] /\ end_ts' = w[2]
    /\ local' = EmptyLocal
    /\ ret' = NoReturn
    /\ api_error' = None
    /\ msg_aggregator' = <<>>
    /\ calls' = <<>>
    /\ gen' = IdleGenerator
    /\ UNCHANGED <<account_to_currency, first_connection_made, available_products,
                   apiVars,
                   sessionVars, dbVars, receiptVars, searchVars>>

\* Line 499: self.first_connection()
TradesFirstConnection(o) ==
    /\ pc = "first_connection"
    /\ LET r == FirstConnection(first_connection_made, available_products, o) IN
        /\ first_connection_made' = r.made
        /\ available_products' = r.products
        /\ calls' = IF r.called THEN Append(calls, ProductsCall) ELSE calls
        /\ api_error' = IF r.called /\ Raises(o) THEN o.kind ELSE None
        /\ IF r.exc # None
           THEN /\ ret' = Raised(r.exc)
                /\ pc' = "done"
                /\ UNCHANGED gen
           ELSE /\ pc' = "orders"
                /\ gen' = NewGenerator("orders", [status |-> "done"],
                                       COINBASEPRO_PAGINATION_LIMIT)
                /\ UNCHANGED ret
    /\ UNCHANGED <<account_to_currency, msg_aggregator, op, start_ts, end_ts, local,
                   apiVars,
                   sessionVars, dbVars, receiptVars, searchVars>>

\* The order loop goes on from order i: to the fills query of the next
\* product, or to the end of the method.
ContinueOrders(loc, msgs, i) ==
    LET ol == OrderLoop([msgs |-> msgs,
                         queried_product_ids |-> loc.queried_product_ids,
                         product |-> Null, next |-> i],
                        loc.orders, i, available_products)
    IN /\ msg_aggregator' = ol.msgs
       /\ local' = [loc EXCEPT !.queried_product_ids = ol.queried_product_ids,
                               !.product = ol.product, !.next = ol.next,
                               !.fills = <<>>]
       /\ IF ol.product = Null
          THEN /\ pc' = "done"
               /\ ret' = Returned(loc.trades)
               /\ gen' = IdleGenerator
          ELSE /\ pc' = "fills"
               /\ ret' = ret
               /\ gen' = NewGenerator("fills", [product_id |-> ol.product.v],
                                      COINBASEPRO_PAGINATION_LIMIT)

\* Lines 504-508: one _api_query call of the paginated 'orders' query
TradesOrders(o) ==
    /\ pc = "orders"
    /\ IF Raises(o) THEN TRUE ELSE local.received + Len(o.result) <= MaxRecords
    /\ calls' = Append(calls, GeneratorCall(gen))
    /\ LET g == GeneratorNext(gen, o) IN
        IF g.pc = "raised"
        THEN /\ gen' = g
             /\ pc' = "done"
             /\ ret' = Raised(o.kind)
             /\ api_error' = o.kind
             /\ UNCHANGED <<local, msg_aggregator>>
        ELSE LET loc == [local EXCEPT !.orders = @ \o o.result,
                                      !.received = @ + Len(o.result)]
             IN /\ UNCHANGED api_error
                /\ IF g.pc = "call"
                   THEN /\ gen' = g
                        /\ local' = loc
                        /\ UNCHANGED <<pc, ret, msg_aggregator>>
                   ELSE ContinueOrders(loc, msg_aggregator, 1)
    /\ UNCHANGED <<account_to_currency, first_connection_made, available_products,
                   op, start_ts, end_ts, apiVars,
                   sessionVars, dbVars, receiptVars, searchVars>>

\* Lines 533-598: one _api_query call of the paginated 'fills' query of a
\* product and, after its last page, the loop over the fills
TradesFills(o) ==
    /\ pc = "fills"
    /\ IF Raises(o) THEN TRUE ELSE local.received + Len(o.result) <= MaxRecords
    /\ calls' = Append(calls, GeneratorCall(gen))
    /\ LET g == GeneratorNext(gen, o) IN
        IF g.pc = "raised"
        THEN /\ gen' = g
             /\ pc' = "done"
             /\ ret' = Raised(o.kind)
             /\ api_error' = o.kind
             /\ UNCHANGED <<local, msg_aggregator>>
        ELSE LET loc == [local EXCEPT !.fills = @ \o o.result,
                                      !.received = @ + Len(o.result),
                                      !.fetched = @ \o
                                          [i \in 1..Len(o.result) |->
                                              [product |-> local.product.v,
                                               fill |-> o.result[i]]]]
             IN /\ UNCHANGED api_error
                /\ IF g.pc = "call"
                   THEN /\ gen' = g
                        /\ local' = loc
                        /\ UNCHANGED <<pc, ret, msg_aggregator>>
                   ELSE LET ps == ProductStep([trades |-> loc.trades,
                                               msgs |-> msg_aggregator, exc |-> None],
                                              loc.product.v, loc.fills,
                                              start_ts, end_ts)
                        IN IF ps.exc # None
                           THEN /\ gen' = g
                                /\ pc' = "done"
                                /\ ret' = Raised(ps.exc)
                                /\ local' = loc
                                /\ msg_aggregator' = ps.msgs
                           ELSE ContinueOrders([loc EXCEPT !.trades = ps.trades],
                                               ps.msgs, loc.next)
    /\ UNCHANGED <<account_to_currency, first_connection_made, available_products,
                   op, start_ts, end_ts, apiVars,
                   sessionVars, dbVars, receiptVars, searchVars>>

--------------------------------------------------------------------------
(* What the remote side serves *)

Account(id, code, balance) ==
    [id |-> Val(id), currency |-> Val(code), balance |-> Val(balance)]
Transfer(id, type, account_id, completed_at) ==
    [id |-> Val(id), type |-> Val(type), account_id |-> Val(account_id),
     completed_at |-> completed_at, amount |-> Val(1), details |-> Absent]
Product(id) == [id |-> id]
Order(product_id) == [product_id |-> product_id]
Fill(trade_id, created_at) ==
    [trade_id |-> Val(trade_id), order_id |-> Val("o1"), created_at |-> created_at,
     side |-> Val("buy"), size |-> Val(1), price |-> Val(1), fee |-> Val(0)]

BTC_USD == <<"BTC", "-", "USD">>
XXX_USD == <<"XXX", "-", "USD">>
YYY_USD == <<"YYY", "-", "USD">>
BTCUSD == <<"BTC", "USD">>
ETH_BTC == <<"ETH", "-", "BTC">>

\* What an _api_query call of a paginated query may end with: a page of up
\* to n of the records, with or without a cursor, or an exception
Outcomes(records, n) == ApiQueryOutcomes(ResponsesWith(SeqsUpTo(records, n), {None, "c1"}))

\* What an _api_query call of 'accounts' or 'products' may end with: a list of
\* up to n of the records, or an exception
ListOutcomes(records, n) == ApiQueryOutcomes(ResponsesWith(SeqsUpTo(records, n), {None}))

\* The prices the inquirer may have for the accounts of a response
PricesFor(o, prices) == IF Raises(o) THEN {<<>>} ELSE [1..Len(o.result) -> prices]

\* Spec: accounts and products of known, unknown and unsupported currencies,
\* every record inside the one time window.
LifeAccounts ==
    {Account("a1", "BTC", 1), Account("a1", "XXX", 1), Account("a2", "ETH", 1),
     Account("a2", "YYY", 1)}
LifeProducts == {Product(Val(BTC_USD)), Product(Val(XXX_USD)), Product(Val(YYY_USD)),
                 Product(Absent)}
LifeTransfers(type) == {Transfer(1, type, "a1", Val(1)), Transfer(2, type, "a2", Val(1))}
LifeOrders == {Order(Val(BTC_USD)), Order(Val(XXX_USD)), Order(Val(YYY_USD)),
               Order(Val(BTCUSD)), Order(Null)}
LifeFills == {Fill(1, Val(1))}
LifeWindows == {<<1, 2>>}
LifePrices == {Val(1), PriceFails}

\* What an _api_query call made at pc = p may end with: one of outcomes
At(p, outcomes) == IF pc = p THEN outcomes ELSE {}

LifeAccountOutcomes == ListOutcomes(LifeAccounts, MaxListed)
LifeProductOutcomes == ListOutcomes(LifeProducts, MaxListed)
LifeWithdrawOutcomes == Outcomes(LifeTransfers("withdraw"), COINBASEPRO_PAGINATION_LIMIT)
LifeDepositOutcomes == Outcomes(LifeTransfers("deposit"), COINBASEPRO_PAGINATION_LIMIT)
LifeOrderOutcomes == Outcomes(LifeOrders, COINBASEPRO_PAGINATION_LIMIT)
LifeFillOutcomes == Outcomes(LifeFills, COINBASEPRO_PAGINATION_LIMIT)

ApiIdle ==
    /\ endpoint = None
    /\ secret_ok = TRUE
    /\ retry_limit = 1
    /\ retries_left = Unbound
    /\ response = NoResponse
    /\ api_pc = "idle"
    /\ api_outcome = NoOutcome
    /\ headers_signed = FALSE
    /\ received = <<>>

InitApi ==
    /\ ClientConstructed
    /\ SessionConstructed
    /\ DbUnused
    /\ ReceiptsUnused
    /\ SearchUnused
    /\ NoOperation
    /\ gen = IdleGenerator
    /\ calls = <<>>
    /\ endpoint \in ApiEndpoints
    /\ secret_ok \in BOOLEAN
    /\ retry_limit \in 0..MaxRetryLimit
    /\ retries_left = Unbound
    /\ response = NoResponse
    /\ api_pc = "sign"
    /\ api_outcome = NoOutcome
    /\ headers_signed = FALSE
    /\ received = <<>>

NextApi ==
    \/ ApiSign
    \/ \E r \in ApiResponses : ApiRequest(r)
    \/ ApiConnectionError
    \/ ApiLoopExhausted
    \/ ApiInterpret

InitPage ==
    /\ ApiIdle
    /\ ClientConstructed
    /\ SessionConstructed
    /\ DbUnused
    /\ ReceiptsUnused
    /\ SearchUnused
    /\ NoOperation
    /\ gen \in {NewGenerator(ep, fixed, limit) :
                    ep \in {"orders", "transfers"}, fixed \in PageFixedOptions,
                    limit \in 1..MaxLimit}
    /\ calls = <<>>

NextPage == \E o \in ApiQueryOutcomes(ResponsesWith(PagePages, Cursors)) : PageQuery(o)

Init ==
    /\ ApiIdle
    /\ ClientConstructed
    /\ SessionConstructed
    /\ DbUnused
    /\ ReceiptsUnused
    /\ SearchUnused
    /\ NoOperation
    /\ gen = IdleGenerator
    /\ calls = <<>>

Next ==
    \/ \E o \in At("idle", LifeAccountOutcomes) : CreateMapCall(o)
    \/ \E o \in At("idle", LifeProductOutcomes) : FirstConnectionCall(o)
    \/ \E o \in At("idle", LifeAccountOutcomes) :
          \E prices \in PricesFor(o, LifePrices) : QueryBalancesCall(o, prices)
    \/ \E w \in LifeWindows : StartMovements(w)
    \/ \E o \in At("withdraw", LifeWithdrawOutcomes) \cup At("deposit", LifeDepositOutcomes) :
          MovementsPage(o)
    \/ \E o \in At("map", LifeAccountOutcomes) : MovementsMap(o)
    \/ \E w \in LifeWindows : StartTrades(w)
    \/ \E o \in At("first_connection", LifeProductOutcomes) : TradesFirstConnection(o)
    \/ \E o \in At("orders", LifeOrderOutcomes) : TradesOrders(o)
    \/ \E o \in At("fills", LifeFillOutcomes) : TradesFills(o)
    \/ Return

Spec == Init /\ [][Next]_vars

SpecApi == InitApi /\ [][NextApi]_vars

SpecPage == InitPage /\ [][NextPage]_vars

\* SpecWindow: the two history operations asked for the window from 1 to
\* MaxTs - 1, over records completed or created before it, at its two ends,
\* inside it and after it, and transfers without a completion time. One
\* account and one product, both of known assets.
MaxTs == 3
WindowTimes == 0..MaxTs
WindowWindows == {<<1, MaxTs - 1>>}
WindowCompletedAt == {Absent, Null} \cup {Val(t) : t \in WindowTimes}
WindowCreatedAt == {Bad} \cup {Val(t) : t \in WindowTimes}
WindowTransfers(type) == {Transfer(1, type, "a1", c) : c \in WindowCompletedAt}
WindowAccounts == {Account("a1", "BTC", 1)}
WindowProducts == {Product(Val(BTC_USD))}
WindowOrders == {Order(Val(BTC_USD))}
WindowFills == {Fill(1, c) : c \in WindowCreatedAt}

\* The whole list in one response, or an error
WindowListOutcomes(records) ==
    ApiQueryOutcomes(ResponsesWith({<<r>> : r \in records}, {None}))

WindowAccountOutcomes == WindowListOutcomes(WindowAccounts)
WindowProductOutcomes == WindowListOutcomes(WindowProducts)
WindowWithdrawOutcomes ==
    Outcomes(WindowTransfers("withdraw"), COINBASEPRO_PAGINATION_LIMIT)
WindowDepositOutcomes ==
    Outcomes(WindowTransfers("deposit"), COINBASEPRO_PAGINATION_LIMIT)
WindowOrderOutcomes == Outcomes(WindowOrders, 1)
WindowFillOutcomes == Outcomes(WindowFills, COINBASEPRO_PAGINATION_LIMIT)

InitWindow ==
    /\ ApiIdle
    /\ ClientConstructed
    /\ SessionConstructed
    /\ DbUnused
    /\ ReceiptsUnused
    /\ SearchUnused
    /\ NoOperation
    /\ gen = IdleGenerator
    /\ calls = <<>>

NextWindow ==
    \/ \E w \in WindowWindows : StartMovements(w)
    \/ \E o \in At("withdraw", WindowWithdrawOutcomes)
                 \cup At("deposit", WindowDepositOutcomes) : MovementsPage(o)
    \/ \E o \in At("map", WindowAccountOutcomes) : MovementsMap(o)
    \/ \E w \in WindowWindows : StartTrades(w)
    \/ \E o \in At("first_connection", WindowProductOutcomes) : TradesFirstConnection(o)
    \/ \E o \in At("orders", WindowOrderOutcomes) : TradesOrders(o)
    \/ \E o \in At("fills", WindowFillOutcomes) : TradesFills(o)
    \/ Return

SpecWindow == InitWindow /\ [][NextWindow]_vars

\* SpecBalances: query_balances over up to MaxAccounts accounts of known and
\* unknown currencies, with zero and non-zero balances, priced or not.
MaxAccounts == 3
BalanceCurrencies == {"BTC", "ETH", "XXX"}
BalanceAmounts == {0, 1, 2}
BalanceAccounts == {Account("a1", c, b) : c \in BalanceCurrencies, b \in BalanceAmounts}
BalancePrices == {Val(2), PriceFails}

BalanceAccountOutcomes == ListOutcomes(BalanceAccounts, MaxAccounts)

InitBalances ==
    /\ ApiIdle
    /\ ClientConstructed
    /\ SessionConstructed
    /\ DbUnused
    /\ ReceiptsUnused
    /\ SearchUnused
    /\ NoOperation
    /\ gen = IdleGenerator
    /\ calls = <<>>

NextBalances ==
    \/ \E o \in At("idle", BalanceAccountOutcomes) :
          \E prices \in PricesFor(o, BalancePrices) : QueryBalancesCall(o, prices)
    \/ Return

SpecBalances == InitBalances /\ [][NextBalances]_vars

\* SpecRecords: the three operations over well-formed records mixed with
\* records that lack a required key or hold a value that cannot be
\* deserialized. One account and one product, both of known assets.
RecordWindows == {<<1, 2>>}
RecordAccounts ==
    {Account("a1", "BTC", 1),
     [Account("a1", "BTC", 1) EXCEPT !.balance = Bad],
     [Account("a1", "BTC", 1) EXCEPT !.currency = Absent]}
RecordPrices == {Val(1), PriceFails}
RecordMapAccounts == {Account("a1", "BTC", 1)}
RecordTransfers(type) ==
    {Transfer(1, type, "a1", Val(1)),
     Transfer(2, type, "a1", Val(2)),
     [Transfer(3, type, "a1", Val(1)) EXCEPT !.amount = Bad],
     [Transfer(4, type, "a1", Val(1)) EXCEPT !.id = Absent],
     Transfer(5, type, "a1", Bad)}
RecordProducts == {Product(Val(BTC_USD))}
RecordOrders == {Order(Val(BTC_USD))}
RecordFills ==
    {Fill(1, Val(1)),
     Fill(2, Val(2)),
     [Fill(3, Val(1)) EXCEPT !.size = Bad],
     [Fill(4, Val(1)) EXCEPT !.trade_id = Absent],
     Fill(5, Bad),
     Fill(6, Null),
     [Fill(7, Val(1)) EXCEPT !.order_id = Null]}

RecordBalanceOutcomes == ListOutcomes(RecordAccounts, MaxListed)
RecordAccountOutcomes == WindowListOutcomes(RecordMapAccounts)
RecordProductOutcomes == WindowListOutcomes(RecordProducts)
RecordWithdrawOutcomes ==
    Outcomes(RecordTransfers("withdraw"), COINBASEPRO_PAGINATION_LIMIT)
RecordDepositOutcomes ==
    Outcomes(RecordTransfers("deposit"), COINBASEPRO_PAGINATION_LIMIT)
RecordOrderOutcomes == Outcomes(RecordOrders, 1)
RecordFillOutcomes == Outcomes(RecordFills, COINBASEPRO_PAGINATION_LIMIT)

InitRecords ==
    /\ ApiIdle
    /\ ClientConstructed
    /\ SessionConstructed
    /\ DbUnused
    /\ ReceiptsUnused
    /\ SearchUnused
    /\ NoOperation
    /\ gen = IdleGenerator
    /\ calls = <<>>

NextRecords ==
    \/ \E o \in At("idle", RecordBalanceOutcomes) :
          \E prices \in PricesFor(o, RecordPrices) : QueryBalancesCall(o, prices)
    \/ \E w \in RecordWindows : StartMovements(w)
    \/ \E o \in At("withdraw", RecordWithdrawOutcomes)
                 \cup At("deposit", RecordDepositOutcomes) : MovementsPage(o)
    \/ \E o \in At("map", RecordAccountOutcomes) : MovementsMap(o)
    \/ \E w \in RecordWindows : StartTrades(w)
    \/ \E o \in At("first_connection", RecordProductOutcomes) : TradesFirstConnection(o)
    \/ \E o \in At("orders", RecordOrderOutcomes) : TradesOrders(o)
    \/ \E o \in At("fills", RecordFillOutcomes) : TradesFills(o)
    \/ Return

SpecRecords == InitRecords /\ [][NextRecords]_vars

\* SpecDetails: query_online_deposits_withdrawals over one withdrawal and one
\* deposit at most, of a BTC, an ETH or a DAI account, with every combination
\* of present and absent details fields.
DetailWindows == {<<1, 2>>}
DetailAccounts ==
    <<Account("a1", "BTC", 1), Account("a2", "ETH", 1), Account("a3", "DAI", 1)>>
DetailAccountIds == {"a1", "a2", "a3"}
DetailAddresses == {Absent, Val("address")}
DetailHashes == {Absent, Val(<<"hash">>), Val(<<>>)}
DetailFees == {Absent, Val(1)}
DetailObjects(type) ==
    {Absent} \cup
    {Val([crypto_address |-> IF type = "deposit" THEN a ELSE Absent,
          sent_to_address |-> IF type = "withdraw" THEN a ELSE Absent,
          crypto_transaction_hash |-> h,
          fee |-> IF type = "withdraw" THEN f ELSE Absent]) :
        a \in DetailAddresses, h \in DetailHashes, f \in DetailFees}
DetailTransfers(type) ==
    {[Transfer(1, type, id, Val(1)) EXCEPT !.details = d] :
        id \in DetailAccountIds, d \in DetailObjects(type)}

\* A response with no transfer or with one, or an error
DetailOutcomes(records) ==
    ApiQueryOutcomes(ResponsesWith({<<>>} \cup {<<r>> : r \in records}, {None}))

DetailWithdrawOutcomes == DetailOutcomes(DetailTransfers("withdraw"))
DetailDepositOutcomes == DetailOutcomes(DetailTransfers("deposit"))
DetailAccountOutcomes == ApiQueryOutcomes(ResponsesWith({DetailAccounts}, {None}))

InitDetails ==
    /\ ApiIdle
    /\ ClientConstructed
    /\ SessionConstructed
    /\ DbUnused
    /\ ReceiptsUnused
    /\ SearchUnused
    /\ NoOperation
    /\ gen = IdleGenerator
    /\ calls = <<>>

NextDetails ==
    \/ \E w \in DetailWindows : StartMovements(w)
    \/ \E o \in At("withdraw", DetailWithdrawOutcomes)
                 \cup At("deposit", DetailDepositOutcomes) : MovementsPage(o)
    \/ \E o \in At("map", DetailAccountOutcomes) : MovementsMap(o)
    \/ Return

SpecDetails == InitDetails /\ [][NextDetails]_vars

\* SpecFills: query_online_trade_history over one order of one of two listed
\* products and fills that differ in every field a trade is
\* built from.
FillWindows == {<<1, 2>>}
FillProducts == <<Product(Val(BTC_USD)), Product(Val(ETH_BTC))>>
FillOrders == {Order(Val(BTC_USD)), Order(Val(ETH_BTC))}
FillSides == {"buy", "sell"}
FillNumbers == {[size |-> 1, price |-> 2, fee |-> 0], [size |-> 2, price |-> 1, fee |-> 1]}
FillIds == {[trade_id |-> 1, order_id |-> "o1"], [trade_id |-> 2, order_id |-> "o2"]}
FillRecords ==
    {[trade_id |-> Val(id.trade_id), order_id |-> Val(id.order_id),
      created_at |-> Val(1), side |-> Val(side), size |-> Val(n.size),
      price |-> Val(n.price), fee |-> Val(n.fee)] :
        id \in FillIds, side \in FillSides, n \in FillNumbers}

FillProductOutcomes == ApiQueryOutcomes(ResponsesWith({FillProducts}, {None}))
FillOrderOutcomes == ApiQueryOutcomes(ResponsesWith({<<o>> : o \in FillOrders}, {None}))
FillFillOutcomes == Outcomes(FillRecords, COINBASEPRO_PAGINATION_LIMIT)

InitFills ==
    /\ ApiIdle
    /\ ClientConstructed
    /\ SessionConstructed
    /\ DbUnused
    /\ ReceiptsUnused
    /\ SearchUnused
    /\ NoOperation
    /\ gen = IdleGenerator
    /\ calls = <<>>

NextFills ==
    \/ \E w \in FillWindows : StartTrades(w)
    \/ \E o \in At("first_connection", FillProductOutcomes) : TradesFirstConnection(o)
    \/ \E o \in At("orders", FillOrderOutcomes) : TradesOrders(o)
    \/ \E o \in At("fills", FillFillOutcomes) : TradesFills(o)
    \/ Return

SpecFills == InitFills /\ [][NextFills]_vars

\* SpecPair: coinbasepro_to_worldpair applied to every product code of up to
\* MaxPieces pieces, a piece being a currency code or the separator.
MaxPieces == 4
PairPieces == {"BTC", "USD", "XXX", "-"}
PairProducts == SeqsUpTo(PairPieces, MaxPieces)

InitPair ==
    /\ ApiIdle
    /\ ClientConstructed
    /\ SessionConstructed
    /\ DbUnused
    /\ ReceiptsUnused
    /\ SearchUnused
    /\ gen = IdleGenerator
    /\ calls = <<>>
    /\ op = "coinbasepro_to_worldpair"
    /\ pc = "call"
    /\ start_ts = 0
    /\ end_ts = 0
    /\ local \in {[EmptyLocal EXCEPT !.product = Val(product)] : product \in PairProducts}
    /\ ret = NoReturn
    /\ api_error = None

\* coinbasepro_to_worldpair(product) runs
WorldPairCall ==
    /\ op = "coinbasepro_to_worldpair"
    /\ pc = "call"
    /\ LET pair == WorldPair(local.product.v) IN
        ret' = IF pair.exc # None THEN Raised(pair.exc)
               ELSE Returned(<<pair.base, pair.quote>>)
    /\ pc' = "done"
    /\ UNCHANGED <<op, start_ts, end_ts, local, api_error, gen, calls, clientVars, apiVars,
                   sessionVars, dbVars, receiptVars, searchVars>>

NextPair == WorldPairCall

SpecPair == InitPair /\ [][NextPair]_vars

\* SpecSession: two callers of _api_query on one client, free to interleave
\* at the request and at the back-off sleep.
\* SpecCredentials: one caller of _api_query, and edit_exchange_credentials
\* at any moment.
SessionEndpoints == {"accounts", "products"}
SessionCredentials == [api_key : {None, "k1", "k2"}, passphrase : {None, "p1", "p2"}]

InitSession ==
    /\ ApiIdle
    /\ ClientConstructed
    /\ SessionConstructed
    /\ DbUnused
    /\ ReceiptsUnused
    /\ SearchUnused
    /\ NoOperation
    /\ gen = IdleGenerator
    /\ calls = <<>>

NextSession ==
    \/ \E c \in Callers, ep \in SessionEndpoints : SessionSign(c, ep)
    \/ \E c \in Callers, too_many \in BOOLEAN : SessionRequest(c, too_many)
    \/ \E c \in Callers : SessionWake(c)
    \/ Tick

SpecSession == InitSession /\ [][NextSession]_vars

InitCredentials ==
    /\ ApiIdle
    /\ ClientConstructed
    /\ SessionConstructed
    /\ DbUnused
    /\ ReceiptsUnused
    /\ SearchUnused
    /\ NoOperation
    /\ gen = IdleGenerator
    /\ calls = <<>>

NextCredentials ==
    \/ \E ep \in SessionEndpoints : SessionSign(1, ep)
    \/ \E too_many \in BOOLEAN : SessionRequest(1, too_many)
    \/ SessionWake(1)
    \/ \E credentials \in SessionCredentials : EditExchangeCredentials(credentials)

SpecCredentials == InitCredentials /\ [][NextCredentials]_vars

\* SpecDb: delete_transactions over every database of up to MaxTxs
\* transactions of two addresses. A stored transaction is mapped to any of
\* the addresses, is decoded or not, and has a decoded event, a customized
\* event, both or none; events may also be left of a transaction not stored.
MaxTxs == 2
DbTxs == 1..MaxTxs
DbAddresses == {"A", "B"}
DbRangeNames == {RangeName(a) : a \in DbAddresses} \cup {<<"ethinternaltxs_", "A">>}
DbTxShapes ==
    {shape \in [stored : BOOLEAN, addresses : SUBSET DbAddresses, decoded : BOOLEAN,
                events : SUBSET {"decoded", "customized"}] :
        shape.stored \/ (shape.addresses = {} /\ ~shape.decoded)}

\* The tables of the database whose transactions have the given shapes
TablesOf(shapes, ranges) ==
    LET stored == {t \in DbTxs : shapes[t].stored} IN
    [used_query_ranges |-> ranges,
     ethereum_transactions |-> stored,
     ethtx_address_mappings |->
        {<<a, t>> : a \in DbAddresses, t \in stored} \cap
        {m \in DbAddresses \X DbTxs : m[1] \in shapes[m[2]].addresses},
     ethtx_receipts |-> stored,
     evm_tx_mappings |->
        {<<t, "ETH", HISTORY_MAPPING_DECODED>> : t \in {x \in stored : shapes[x].decoded}},
     history_events |->
        {[event_identifier |-> Hex(x[1]), customized |-> x[2] = "customized"] :
            x \in {y \in DbTxs \X {"decoded", "customized"} : y[2] \in shapes[y[1]].events}}]

DbStates ==
    {TablesOf(shapes, ranges) : shapes \in [DbTxs -> DbTxShapes],
                                ranges \in SUBSET DbRangeNames}

InitDb ==
    /\ ApiIdle
    /\ ClientConstructed
    /\ SessionConstructed
    /\ NoOperation
    /\ gen = IdleGenerator
    /\ calls = <<>>
    /\ db \in DbStates
    /\ db_before = NoTables
    /\ db_call = None
    /\ ReceiptsUnused
    /\ SearchUnused

NextDb == \E address \in DbAddresses : DeleteTransactionsCall(address)

SpecDb == InitDb /\ [][NextDb]_vars

\* SpecReceipt: receipts added to two stored transactions and read back.
\* The data differ in the receipt's own fields with no logs, or, for the
\* first transaction, in their logs (up to MaxLogs of them, in any order,
\* some repeated or malformed) with plain fields.
MaxLogs == 2
PlainLog(log_index, topics, removed) ==
    [logIndex |-> log_index, data |-> Val("0xd"), address |-> Val("0xdef"),
     removed |-> removed, topics |-> topics]
ReceiptLogs ==
    {PlainLog(0, <<"0xa", "0xb">>, FALSE),
     PlainLog(1, <<"0xb", "0xa">>, TRUE),
     [PlainLog(1, <<"0xa">>, FALSE) EXCEPT !.data = Absent],
     [PlainLog(1, <<"0xa">>, FALSE) EXCEPT !.address = Bad]}
ReceiptFields ==
    {[type |-> Absent, status |-> st, contractAddress |-> c] :
        st \in {Absent, Null, Val(0), Val(1)}, c \in {Null, Val("0xabc")}}
    \cup {[type |-> Val("0x2"), status |-> Val(1), contractAddress |-> c] :
            c \in {Null, Absent, Bad}}
ReceiptDatas ==
    {[transactionHash |-> Val(h), type |-> f.type, status |-> f.status,
      contractAddress |-> f.contractAddress, logs |-> <<>>] :
        h \in ReceiptHashes, f \in ReceiptFields}
    \cup
    {[transactionHash |-> Val(1), type |-> Val("0x0"), status |-> Val(1),
      contractAddress |-> Null, logs |-> logs] :
        logs \in SeqsUpTo(ReceiptLogs, MaxLogs) \ {<<>>}}

InitReceipt ==
    /\ ApiIdle
    /\ ClientConstructed
    /\ SessionConstructed
    /\ DbUnused
    /\ ReceiptsUnused
    /\ SearchUnused
    /\ NoOperation
    /\ gen = IdleGenerator
    /\ calls = <<>>

NextReceipt ==
    \/ \E data \in ReceiptDatas : AddReceiptData(data)
    \/ \E tx_hash \in ReceiptHashes : GetReceipt(tx_hash)
    \/ GetTransactionHashesNoReceipt

SpecReceipt == InitReceipt /\ [][NextReceipt]_vars

(* SpecSearch: one search_assets_levenshtein call over every small result of
   the assets and nfts queries. *)

MaxScanned == 3
MaxSearchLimit == 2

TokenRow(identifier, name, symbol, evm_chain, asset_type, custom) ==
    [identifier |-> identifier, name |-> name, symbol |-> symbol, evm_chain |-> evm_chain,
     asset_type |-> asset_type, custom_asset_type |-> custom]

SearchAssetRows ==
    {TokenRow(ETH_IDENTIFIER, Val(<<"E", "t", "h">>), Val(<<"E", "T", "H">>), Null,
              "own chain", Null),
     TokenRow(ETH2_IDENTIFIER, Val(<<"E", "t", "h", "2">>), Val(<<"E", "T", "H", "2">>), Null,
              "own chain", Null),
     TokenRow("eip155:1/erc20:0xE", Null, Val(<<"E", "T">>), Val(1), "evm token", Null),
     TokenRow("custom", Null, Null, Null, "custom asset", Val("stock"))}

SearchNftRows ==
    {[identifier |-> "_nft_1", name |-> Val(<<"e", "T", "h">>), collection_name |-> Null],
     [identifier |-> "_nft_2", name |-> Null, collection_name |-> Val(<<"E", "t">>)],
     [identifier |-> "_nft_3", name |-> Null, collection_name |-> Null]}

\* The rows of a query, each row once, in any order
Scans(rows, n) ==
    {scan \in SeqsUpTo(rows, n) : \A i, j \in 1..Len(scan) : scan[i] = scan[j] => i = j}

SearchStrings == {<<"e", "t", "h">>, <<"e", "t", "h", "2">>}

SearchLimits == {Null} \cup {Val(n) : n \in 0..MaxSearchLimit}

SearchArguments ==
    [assets : Scans(SearchAssetRows, MaxScanned),
     nfts : Scans(SearchNftRows, MaxScanned - 1),
     substring_search : SearchStrings,
     limit : SearchLimits,
     search_nfts : BOOLEAN,
     treat_eth2_as_eth : BOOLEAN]

InitSearch ==
    /\ ApiIdle
    /\ ClientConstructed
    /\ SessionConstructed
    /\ DbUnused
    /\ ReceiptsUnused
    /\ NoOperation
    /\ gen = IdleGenerator
    /\ calls = <<>>
    /\ search \in {Val(args) : args \in SearchArguments}
    /\ search_result = NotSearched

NextSearch == SearchAssetsLevenshteinCall

SpecSearch == InitSearch /\ [][NextSearch]_vars

--------------------------------------------------------------------------
(* Claims about the client's operations (Spec) *)

ApiErrors == {"RemoteError", "CoinbaseProPermissionError"}
HistoryOperations == {"query_online_deposits_withdrawals", "query_online_trade_history"}
CountCalls(c, ep) == Cardinality({i \in 1..Len(c) : c[i].endpoint = ep})

\* C5 as claimed: when an _api_query call of query_balances,
\* query_online_deposits_withdrawals or query_online_trade_history raises
\* RemoteError or CoinbaseProPermissionError, the operation raises that error.
C5_ApiErrorsAreRaised ==
    (pc = "done" /\ op \in HistoryOperations \cup {"query_balances"}
        /\ api_error \in ApiErrors)
    => (ret.kind = "raise" /\ ret.exc = api_error)

\* C5 as amended: such an error ends the operation without a partial result;
\* query_online_deposits_withdrawals and query_online_trade_history raise it,
\* query_balances returns (None, message) instead of raising.
C5_ApiErrorsSurface ==
    (pc = "done" /\ api_error \in ApiErrors) =>
        /\ op \in HistoryOperations => (ret.kind = "raise" /\ ret.exc = api_error)
        /\ op = "query_balances" =>
              (ret.kind = "return" /\ ret.value.balances = None /\ ret.value.msg # "")

\* A trade history that had already built a trade out of one product's fills
\* when the fills query of the next product failed.
C5_Witness ==
    /\ pc = "done"
    /\ op = "query_online_trade_history"
    /\ api_error = "RemoteError"
    /\ local.trades # <<>>
    /\ Len(calls) = 4
    /\ ret.kind = "raise"

\* C6: neither UnknownAsset nor UnsupportedAsset leaves an operation.
C6_AssetErrorsNeverPropagate ==
    pc = "done" => ret.exc \notin {"UnknownAsset", "UnsupportedAsset"}

MapMethodStep ==
    \/ pc = "idle" /\ op' = "create_or_return_account_to_currency_map"
    \/ pc = "map"

\* C7: once account_to_currency is a map it never changes; a call of
\* create_or_return_account_to_currency_map that finds it filled sends no
\* 'accounts' request and returns it; it is filled only by a call whose
\* 'accounts' request succeeded, and a call whose request raises leaves it
\* None.
C7_CacheWrittenOnce ==
    [][/\ ~account_to_currency.none => account_to_currency' = account_to_currency
       /\ (~account_to_currency.none /\ MapMethodStep) =>
             CountCalls(calls', "accounts") = CountCalls(calls, "accounts")
       /\ (~account_to_currency.none /\ pc = "idle"
               /\ op' = "create_or_return_account_to_currency_map") =>
             ret' = Returned(account_to_currency.map)
       /\ (account_to_currency.none /\ ~account_to_currency'.none) =>
             /\ MapMethodStep
             /\ CountCalls(calls', "accounts") = CountCalls(calls, "accounts") + 1
             /\ api_error' = None
       /\ (account_to_currency.none /\ MapMethodStep) =>
             /\ CountCalls(calls', "accounts") = CountCalls(calls, "accounts") + 1
             /\ api_error' # None => account_to_currency'.none
      ]_vars

\* A call that returned a map of two accounts out of the cache, without a
\* request.
C7_Witness ==
    /\ pc = "done"
    /\ op = "create_or_return_account_to_currency_map"
    /\ calls = <<>>
    /\ ret.kind = "return"
    /\ Cardinality(ret.value) = 2
    /\ account_to_currency = MapOf(ret.value)

FirstConnectionStep ==
    \/ pc = "idle" /\ op' = "first_connection"
    \/ pc = "first_connection"

\* C8: first_connection_made, once true, stays true and available_products
\* stays as it is; a 'products' request is sent only while the flag is false;
\* the flag becomes true only in a first_connection whose request succeeded
\* and stays false when it raised; and query_online_trade_history is past
\* first_connection only with the flag true.
C8_BootstrapOnce ==
    [][/\ first_connection_made =>
             (first_connection_made' /\ available_products' = available_products)
       /\ CountCalls(calls', "products") > CountCalls(calls, "products") =>
             (~first_connection_made /\ FirstConnectionStep)
       /\ (~first_connection_made /\ first_connection_made') =>
             /\ FirstConnectionStep
             /\ CountCalls(calls', "products") = CountCalls(calls, "products") + 1
             /\ api_error' = None
       /\ (~first_connection_made /\ FirstConnectionStep) =>
             /\ CountCalls(calls', "products") = CountCalls(calls, "products") + 1
             /\ ret'.kind = "raise" =>
                   (~first_connection_made' /\ available_products' = available_products)
       /\ pc \in {"orders", "fills"} => first_connection_made
      ]_vars

\* A trade history that returned trades without a 'products' request, the
\* bootstrap having been made by an earlier call.
C8_Witness ==
    /\ pc = "done"
    /\ op = "query_online_trade_history"
    /\ first_connection_made
    /\ CountCalls(calls, "products") = 0
    /\ ret.kind = "return"
    /\ ret.value # <<>>

--------------------------------------------------------------------------
(* Claims about the time window (SpecWindow) *)

InWindow(t) == start_ts <= t /\ t <= end_ts
Timestamps(records) == [i \in 1..Len(records) |-> records[i].timestamp]

\* The completion times of the fetched transfers that have one inside the
\* window and belong to a mapped account, in the order fetched.
ExpectedMovementTimes ==
    LET Kept(e) == /\ e.completed_at.k = "val"
                   /\ InWindow(e.completed_at.v)
                   /\ MapHas(account_to_currency.map, e.account_id.v)
        kept == SelectSeq(local.raw_movements, Kept)
    IN [i \in 1..Len(kept) |-> kept[i].completed_at.v]

\* The creation times of the fetched fills that have a readable one inside
\* the window, in the order fetched.
ExpectedTradeTimes ==
    LET Kept(f) == f.fill.created_at.k = "val" /\ InWindow(f.fill.created_at.v)
        kept == SelectSeq(local.fetched, Kept)
    IN [i \in 1..Len(kept) |-> kept[i].fill.created_at.v]

\* C9: every movement and every trade returned has its timestamp within
\* [start_ts, end_ts]; the records returned are exactly the well-formed
\* fetched ones with a timestamp within the window, its two ends included;
\* a transfer without a completed_at value is not among them.
C9_WithinWindow ==
    (pc = "done" /\ ret.kind = "return" /\ op \in HistoryOperations) =>
        /\ \A i \in 1..Len(ret.value) : InWindow(ret.value[i].timestamp)
        /\ op = "query_online_deposits_withdrawals" =>
              Timestamps(ret.value) = ExpectedMovementTimes
        /\ op = "query_online_trade_history" =>
              Timestamps(ret.value) = ExpectedTradeTimes

\* Three transfers, completed at start_ts, at end_ts and not at all: the first
\* two are returned.
C9_Witness ==
    /\ pc = "done"
    /\ op = "query_online_deposits_withdrawals"
    /\ ret.kind = "return"
    /\ start_ts < end_ts
    /\ Len(local.raw_movements) = 3
    /\ \E i \in 1..3 : local.raw_movements[i].completed_at.k \in {"missing", "null"}
    /\ Timestamps(ret.value) = <<start_ts, end_ts>>

--------------------------------------------------------------------------
(* Claims about query_balances (SpecBalances) *)

RECURSIVE SumOver(_, _)
SumOver(f, S) ==
    IF S = {} THEN 0
    ELSE LET x == CHOOSE y \in S : TRUE IN f[x] + SumOver(f, S \ {x})

\* The accounts with a non-zero balance, a resolvable currency and a price
Contributing(accounts, prices) ==
    {i \in 1..Len(accounts) :
        /\ accounts[i].balance.k = "val" /\ accounts[i].balance.v # 0
        /\ accounts[i].currency.k = "val"
        /\ AssetFromCoinbasepro(accounts[i].currency.v) \in Assets
        /\ prices[i].k = "val"}

\* One entry per asset of a contributing account, with the sums over them
ExpectedBalances(accounts, prices) ==
    LET C == Contributing(accounts, prices)
        AssetOf(i) == AssetFromCoinbasepro(accounts[i].currency.v)
        Of(a) == {i \in C : AssetOf(i) = a}
    IN {[asset |-> a,
         amount |-> SumOver([i \in C |-> accounts[i].balance.v], Of(a)),
         usd_value |-> SumOver([i \in C |-> accounts[i].balance.v * prices[i].v], Of(a))] :
            a \in {AssetOf(i) : i \in C}}

Swapped(seq, i, j) == [seq EXCEPT ![i] = seq[j], ![j] = seq[i]]

\* C10: the balances query_balances returns are exactly one entry per asset
\* that has an account with a non-zero balance, a resolvable currency and a
\* price, holding the sums over those accounts; and the same accounts in
\* another order give the same balances.
C10_BalancesAreSums ==
    (pc = "done" /\ op = "query_balances" /\ api_error = None /\ ret.kind = "return") =>
        /\ ret.value.balances = ExpectedBalances(local.accounts, local.prices)
        /\ \A i, j \in 1..Len(local.accounts) :
              QueryBalancesResult([kind |-> "return",
                                   result |-> Swapped(local.accounts, i, j),
                                   cursor |-> None],
                                  Swapped(local.prices, i, j)).value
                  = ret.value.balances

\* Two BTC accounts of 1 and 2 and an ETH account of 0, all priced at 2: one
\* BTC entry of 3, worth 6.
C10_Witness ==
    /\ pc = "done"
    /\ op = "query_balances"
    /\ ret.kind = "return"
    /\ Len(local.accounts) = 3
    /\ \E i, j, k \in 1..3 :
          /\ local.accounts[i] = Account("a1", "BTC", 1)
          /\ local.accounts[j] = Account("a1", "BTC", 2)
          /\ local.accounts[k] = Account("a1", "ETH", 0)
    /\ \A i \in 1..3 : local.prices[i] = Val(2)
    /\ ret.value.balances = {[asset |-> A_BTC, amount |-> 3, usd_value |-> 6]}

--------------------------------------------------------------------------
(* Claims about the records (SpecRecords) *)

Unreadable(field) == field.k # "val"

\* An account, transfer or fill with a missing required key or an
\* undeserializable field
FailingAccount(account, price) ==
    Unreadable(account.balance) \/ Unreadable(account.currency) \/ Unreadable(price)
FailingTransfer(entry) ==
    \/ entry.completed_at.k = "bad"
    \/ Unreadable(entry.type) \/ entry.account_id.k = "missing"
    \/ Unreadable(entry.amount) \/ entry.id.k = "missing"
FailingFill(f) ==
    \/ Unreadable(f.created_at) \/ Unreadable(f.side) \/ Unreadable(f.size)
    \/ Unreadable(f.price) \/ Unreadable(f.fee)
    \/ f.trade_id.k = "missing" \/ Unreadable(f.order_id)

CountOf(seq, Test(_)) == Cardinality({i \in 1..Len(seq) : Test(seq[i])})

FetchedFills == [i \in 1..Len(local.fetched) |-> local.fetched[i].fill]

\* What the operation that has ended returns for its remote input without
\* the failing records
ExpectedWithoutFailing ==
    IF op = "query_balances"
    THEN LET good == {i \in 1..Len(local.accounts) :
                         ~FailingAccount(local.accounts[i], local.prices[i])}
             Keep(seq) == LET F[i \in 0..Len(seq)] ==
                                  IF i = 0 THEN <<>>
                                  ELSE IF i \in good THEN Append(F[i - 1], seq[i])
                                  ELSE F[i - 1]
                          IN F[Len(seq)]
         IN [balances |-> BalanceLoop([balances |-> {}, msgs |-> <<>>],
                                      Keep(local.accounts), Keep(local.prices)).balances,
             msg |-> ""]
    ELSE IF op = "query_online_deposits_withdrawals"
    THEN LET Good(e) == ~FailingTransfer(e) IN
         MovementLoop([movements |-> <<>>, msgs |-> <<>>, exc |-> None],
                      SelectSeq(local.raw_movements, Good),
                      account_to_currency.map, start_ts, end_ts).movements
    ELSE LET Good(f) == ~FailingFill(f) IN
         FillLoop([trades |-> <<>>, msgs |-> <<>>, exc |-> None],
                  SelectSeq(FetchedFills, Good), A_BTC, A_USD, start_ts, end_ts).trades

FailingRecords ==
    IF op = "query_balances"
    THEN Cardinality({i \in 1..Len(local.accounts) :
                         FailingAccount(local.accounts[i], local.prices[i])})
    ELSE IF op = "query_online_deposits_withdrawals"
    THEN CountOf(local.raw_movements, FailingTransfer)
    ELSE CountOf(FetchedFills, FailingFill)

\* C11: an operation whose requests all succeeded returns, whatever records
\* failed; it returns what it returns for the input without the failing
\* records, and it has added one message to the sink for every failing
\* record.
C11_RecordErrorsIsolated ==
    (pc = "done" /\ api_error = None) =>
        /\ ret.kind = "return"
        /\ ret.value = ExpectedWithoutFailing
        /\ Len(msg_aggregator) = FailingRecords

--------------------------------------------------------------------------
(* Claims about the details of a transfer (SpecDetails) *)

MovementsReturned ==
    /\ pc = "done"
    /\ op = "query_online_deposits_withdrawals"
    /\ ret.kind = "return"

\* A field of the details object of a transfer, Absent when the transfer has
\* no details
DetailField(entry, name) ==
    IF entry.details.k = "val" THEN entry.details.v[name] ELSE Absent

\* C12: a movement returned with a non-empty transaction id has, for ETH and
\* for an EVM token, '0x' followed by the crypto_transaction_hash of its
\* transfer, and for any other asset that hash as it is.
C12_TransactionIdPrefix ==
    MovementsReturned =>
        /\ Len(ret.value) = Len(local.raw_movements)
        /\ \A i \in 1..Len(ret.value) :
              LET m == ret.value[i]
                  hash == DetailField(local.raw_movements[i], "crypto_transaction_hash")
              IN (m.transaction_id.k = "val" /\ m.transaction_id.v # <<>>) =>
                    /\ hash.k = "val"
                    /\ m.transaction_id.v =
                          IF m.asset \in {A_ETH, A_DAI} THEN <<"0x">> \o hash.v
                                                         ELSE hash.v

\* An ETH withdrawal and a BTC deposit, both with a transaction hash
C12_Witness ==
    /\ MovementsReturned
    /\ Len(ret.value) = 2
    /\ ret.value[1].asset = A_ETH
    /\ ret.value[1].transaction_id = Val(<<"0x", "hash">>)
    /\ ret.value[2].asset = A_BTC
    /\ ret.value[2].transaction_id = Val(<<"hash">>)

\* The transaction id as the remote side gave it
WithoutPrefix(txid) ==
    IF txid.k = "val" /\ txid.v # <<>> /\ Head(txid.v) = "0x"
    THEN Val(Tail(txid.v)) ELSE txid

\* What a movement holds for a details field: its value, or None when absent
ValueOrEmpty(field) == IF field.k = "val" THEN field ELSE Null

\* C13: no transfer fails for what its details lack, and every movement has
\* the address, the transaction id and (a withdrawal) the fee of its
\* transfer's details where they are present, and None, None and zero where
\* they are absent.
C13_DetailsReadFieldByField ==
    MovementsReturned =>
        /\ Len(ret.value) = Len(local.raw_movements)
        /\ msg_aggregator = <<>>
        /\ \A i \in 1..Len(ret.value) :
              LET m == ret.value[i]
                  e == local.raw_movements[i]
                  address == IF m.category = DEPOSIT
                             THEN DetailField(e, "crypto_address")
                             ELSE DetailField(e, "sent_to_address")
                  fee == DetailField(e, "fee")
              IN /\ m.address = ValueOrEmpty(address)
                 /\ WithoutPrefix(m.transaction_id) =
                        ValueOrEmpty(DetailField(e, "crypto_transaction_hash"))
                 /\ m.fee = IF m.category = WITHDRAWAL /\ fee.k = "val" THEN fee.v ELSE 0

--------------------------------------------------------------------------
(* Claims about the trade built from a fill (SpecFills) *)

TradesReturned ==
    /\ pc = "done"
    /\ op = "query_online_trade_history"
    /\ ret.kind = "return"

\* C16: the trade of a fill has the assets of the two parts of the fill's
\* product as base and quote, the fill's side as trade type, its size as
\* amount, its price as rate, its fee as fee, the quote asset as fee currency
\* and trade_id, '_' and order_id as link.
C16_TradeFields ==
    TradesReturned =>
        /\ Len(ret.value) = Len(local.fetched)
        /\ \A i \in 1..Len(ret.value) :
              LET t == ret.value[i]
                  f == local.fetched[i].fill
                  product == local.fetched[i].product
              IN /\ t.base_asset = AssetFromCoinbasepro(product[1])
                 /\ t.quote_asset = AssetFromCoinbasepro(product[3])
                 /\ t.trade_type = IF f.side.v = "buy" THEN BUY ELSE SELL
                 /\ t.amount = f.size.v
                 /\ t.rate = f.price.v
                 /\ t.fee = f.fee.v
                 /\ t.fee_currency = t.quote_asset
                 /\ t.link = <<f.trade_id.v, "_", f.order_id.v>>

\* Two fills of ETH-BTC, a sale and a purchase
C16_Witness ==
    /\ TradesReturned
    /\ Len(ret.value) = 2
    /\ ret.value[1] = [timestamp |-> 1, base_asset |-> A_ETH, quote_asset |-> A_BTC,
                       trade_type |-> SELL, amount |-> 2, rate |-> 1, fee |-> 1,
                       fee_currency |-> A_BTC, link |-> <<1, "_", "o1">>]
    /\ ret.value[2].trade_type = BUY
    /\ ret.value[2].link = <<2, "_", "o2">>

--------------------------------------------------------------------------
(* Claims about coinbasepro_to_worldpair (SpecPair) *)

Separators(product) == Cardinality({i \in 1..Len(product) : product[i] = "-"})

\* The text before and after the one separator of a product
BeforeSeparator(product) ==
    SubSeq(product, 1, (CHOOSE i \in 1..Len(product) : product[i] = "-") - 1)
AfterSeparator(product) ==
    SubSeq(product, (CHOOSE i \in 1..Len(product) : product[i] = "-") + 1, Len(product))

\* The currency code a text is, if it is one
CodeOf(text) == IF Len(text) = 1 THEN text[1] ELSE "unknown"

\* C17: coinbasepro_to_worldpair raises UnprocessableTradePair exactly for a
\* product that does not have exactly one '-'; for any other product it gives
\* the asset of the text before the '-' and the asset of the text after it
\* (or the exception that asset_from_coinbasepro raises for one of them).
C17_WorldPair ==
    (pc = "done" /\ op = "coinbasepro_to_worldpair") =>
        LET product == local.product.v IN
        /\ (ret.kind = "raise" /\ ret.exc = "UnprocessableTradePair")
                <=> Separators(product) # 1
        /\ Separators(product) = 1 =>
              LET base == AssetFromCoinbasepro(CodeOf(BeforeSeparator(product)))
                  quote == AssetFromCoinbasepro(CodeOf(AfterSeparator(product)))
              IN IF base \in Assets /\ quote \in Assets
                 THEN ret = Returned(<<base, quote>>)
                 ELSE ret.kind = "raise" /\ ret.exc \in {base, quote} \ Assets

\* 'BTC-USD' gives base BTC and quote USD
C17_Witness ==
    /\ pc = "done"
    /\ op = "coinbasepro_to_worldpair"
    /\ local.product = Val(BTC_USD)
    /\ ret = Returned(<<A_BTC, A_USD>>)

--------------------------------------------------------------------------
(* Claims about the order of the queries and of the results (Spec) *)

IsTransfersCall(call, type) ==
    IF call.endpoint = "transfers" THEN call.query_options.fixed.type = type ELSE FALSE

IsFillsCall(call) == call.endpoint = "fills"

\* The first request of a paginated query: it carries no 'after' cursor
IsFirstPage(call) == call.query_options.after = Missing

\* a is b with some of its elements left out
RECURSIVE IsSubseq(_, _)
IsSubseq(a, b) ==
    IF a = <<>> THEN TRUE
    ELSE IF b = <<>> THEN FALSE
    ELSE IF Head(a) = Head(b) THEN IsSubseq(Tail(a), Tail(b))
    ELSE IsSubseq(a, Tail(b))

MovementKeys(movements) ==
    [i \in 1..Len(movements) |-> <<movements[i].category, movements[i].link>>]
TransferKeys(transfers) ==
    [i \in 1..Len(transfers) |->
        <<IF transfers[i].type.v = "withdraw" THEN WITHDRAWAL ELSE DEPOSIT,
          transfers[i].id.v>>]

\* C15: no withdraw page is requested after a deposit page, the transfers
\* are kept withdrawals first and deposits after them, and the movements
\* returned are in the order of those transfers, some of them left out.
C15_MovementOrder ==
    op = "query_online_deposits_withdrawals" =>
        /\ \A i, j \in 1..Len(calls) :
              (i < j /\ IsTransfersCall(calls[i], "deposit"))
                  => ~IsTransfersCall(calls[j], "withdraw")
        /\ \A i, j \in 1..Len(local.raw_movements) :
              (i < j /\ local.raw_movements[i].type.v = "deposit")
                  => local.raw_movements[j].type.v = "deposit"
        /\ MovementsReturned =>
              IsSubseq(MovementKeys(ret.value), TransferKeys(local.raw_movements))

\* A deposit of one account and a withdrawal of another, returned withdrawal
\* first
C15_Witness ==
    /\ MovementsReturned
    /\ Len(ret.value) = 2
    /\ ret.value[1].category = WITHDRAWAL
    /\ ret.value[1].link = 2
    /\ ret.value[2].category = DEPOSIT
    /\ ret.value[2].link = 1

\* C19: in one query_online_trade_history call no 'orders' request follows a
\* 'fills' request, no two paginated 'fills' queries are for the same
\* product, and every 'fills' request is for the product code of a fetched
\* order that is in available_products.
C19_FillsOncePerProduct ==
    op = "query_online_trade_history" =>
        /\ \A i, j \in 1..Len(calls) :
              (i < j /\ IsFillsCall(calls[i])) => calls[j].endpoint # "orders"
        /\ \A i, j \in 1..Len(calls) :
              (i < j /\ IsFillsCall(calls[i]) /\ IsFillsCall(calls[j])
                     /\ IsFirstPage(calls[i]) /\ IsFirstPage(calls[j]))
                  => calls[i].query_options.fixed.product_id
                        # calls[j].query_options.fixed.product_id
        /\ \A i \in 1..Len(calls) :
              IsFillsCall(calls[i]) =>
                  /\ calls[i].query_options.fixed.product_id \in available_products
                  /\ \E k \in 1..Len(local.orders) :
                        local.orders[k].product_id
                            = Val(calls[i].query_options.fixed.product_id)

\* Two orders of one listed product and an order without product code: one
\* 'fills' query
C19_Witness ==
    /\ TradesReturned
    /\ local.orders = <<Order(Val(BTC_USD)), Order(Null), Order(Val(BTC_USD))>>
    /\ Cardinality({i \in 1..Len(calls) : IsFillsCall(calls[i])}) = 1

--------------------------------------------------------------------------
(* Claims about the session (SpecSession, SpecCredentials) *)

CarriesOwnSignature(request) ==
    /\ request.headers.sign = Signature(request.message)
    /\ request.headers.timestamp = request.message[1]

\* C14: a request to a signed endpoint sent by a call that has had the
\* session to itself, a retry after a 429 included, carries the signature
\* and the timestamp computed from the call's own message.
C14_SerializedCallsCarryOwnSignature ==
    \A request \in sent :
        (request.alone /\ IsSigned(request.endpoint)) => CarriesOwnSignature(request)

\* A call alone on the session retries with its own signature, and a call
\* that another call interleaved with sends a request carrying the signature
\* and timestamp of that other call's message.
C14_Witness ==
    /\ \E request \in sent :
          /\ request.alone /\ request.retry /\ IsSigned(request.endpoint)
          /\ CarriesOwnSignature(request)
    /\ \E request \in sent :
          /\ ~request.alone /\ IsSigned(request.endpoint)
          /\ request.headers.sign # Signature(request.message)
          /\ request.headers.timestamp # request.message[1]
          /\ \E t \in 0..MaxClock, ep \in SessionEndpoints :
                /\ Message(t, ep) # request.message
                /\ request.headers.sign = Signature(Message(t, ep))
                /\ request.headers.timestamp = t

\* The header a sequence of edits leaves: the last value supplied, or the
\* initial one
RECURSIVE LastSupplied(_, _, _)
LastSupplied(history, field, initial) ==
    IF history = <<>> THEN initial
    ELSE IF history[Len(history)][field] # None THEN history[Len(history)][field]
    ELSE LastSupplied(SubSeq(history, 1, Len(history) - 1), field, initial)

\* C18: after every edit_exchange_credentials the API-key header is the last
\* key supplied and the passphrase header the last passphrase supplied (the
\* initial ones when none was), and every request carries the values of the
\* edits made before it was sent.
C18_PartialCredentialUpdate ==
    /\ session_headers.key = LastSupplied(edits, "api_key", INITIAL_API_KEY)
    /\ session_headers.passphrase = LastSupplied(edits, "passphrase", INITIAL_PASSPHRASE)
    /\ \A request \in sent :
          LET before == SubSeq(edits, 1, request.edits) IN
          /\ request.headers.key = LastSupplied(before, "api_key", INITIAL_API_KEY)
          /\ request.headers.passphrase =
                LastSupplied(before, "passphrase", INITIAL_PASSPHRASE)

\* A request before an edit of the key alone and an edit of the passphrase
\* alone, and a request after them
C18_Witness ==
    /\ edits = <<[api_key |-> "k1", passphrase |-> None],
                 [api_key |-> None, passphrase |-> "p1"]>>
    /\ \E request \in sent :
          /\ request.edits = 0
          /\ request.headers.passphrase = INITIAL_PASSPHRASE
    /\ \E request \in sent :
          /\ request.edits = 2
          /\ request.headers.key = "k1"
          /\ request.headers.passphrase = "p1"

--------------------------------------------------------------------------
(* Claims about delete_transactions (SpecDb) *)

MappedTo(tables, tx_hash) == {m[1] : m \in {x \in tables.ethtx_address_mappings : x[2] = tx_hash}}
EventsOf(tables, tx_hash) == {e \in tables.history_events : e.event_identifier = Hex(tx_hash)}

\* The transaction is in the tables after the call with what it had before
StaysWhole(before, after, tx_hash) ==
    /\ tx_hash \in after.ethereum_transactions
    /\ tx_hash \in before.ethtx_receipts => tx_hash \in after.ethtx_receipts
    /\ MappedTo(after, tx_hash) = MappedTo(before, tx_hash)
    /\ EventsOf(after, tx_hash) = EventsOf(before, tx_hash)

\* C20: after delete_transactions(address) every transaction that was mapped
\* to another address, or not to this one, is still stored with its receipt,
\* mappings and events; a transaction that was mapped to this address alone
\* is stored exactly if events with its hash as identifier are left; and the
\* query ranges are those of before without 'ethtxs_<address>'.
C20_DeleteOnlyOwnTransactions ==
    db_call # None =>
        /\ \A t \in db_before.ethereum_transactions :
              IF MappedTo(db_before, t) = {db_call}
              THEN t \in db.ethereum_transactions <=> EventsOf(db, t) # {}
              ELSE StaysWhole(db_before, db, t)
        /\ db.ethereum_transactions \subseteq db_before.ethereum_transactions
        /\ db.used_query_ranges = db_before.used_query_ranges \ {RangeName(db_call)}

\* A transaction of A alone is deleted, one shared with B stays, and the
\* range of A goes while that of B stays
C20_Witness ==
    /\ db_call = "A"
    /\ MappedTo(db_before, 1) = {"A"}
    /\ 1 \in db_before.ethereum_transactions
    /\ 1 \notin db.ethereum_transactions
    /\ MappedTo(db_before, 2) = {"A", "B"}
    /\ 2 \in db.ethereum_transactions
    /\ RangeName("A") \in db_before.used_query_ranges
    /\ RangeName("A") \notin db.used_query_ranges
    /\ RangeName("B") \in db.used_query_ranges

--------------------------------------------------------------------------
(* Claims about the receipts (SpecReceipt) *)

\* The log get_receipt is to give for a log entry of the data
ExpectedLog(log_entry) ==
    [log_index |-> log_entry.logIndex,
     data |-> HexstringToBytes(log_entry.data.v),
     address |-> ChecksumAddress(log_entry.address.v),
     removed |-> log_entry.removed,
     topics |-> [i \in 1..Len(log_entry.topics) |-> HexstringToBytes(log_entry.topics[i])]]

SeqToSet(seq) == {seq[i] : i \in 1..Len(seq)}

MatchesData(receipt, data) ==
    /\ receipt.tx_hash = data.transactionHash.v
    /\ receipt.status = (IF data.status.k = "val" THEN data.status.v = 1 ELSE TRUE)
    /\ receipt.type = (IF data.type.k = "val" THEN HexstrToInt(data.type.v) ELSE 0)
    /\ receipt.contract_address =
          (IF data.contractAddress.k = "val" THEN ChecksumAddress(data.contractAddress.v)
                                           ELSE None)
    /\ Len(receipt.logs) = Len(data.logs)
    /\ SeqToSet(receipt.logs) = {ExpectedLog(data.logs[i]) : i \in 1..Len(data.logs)}

\* C21: get_receipt of a hash whose add_receipt_data returned gives the
\* status, type, contract address and logs of that data, each log with its
\* topics in the order given; get_receipt of a hash no add_receipt_data was
\* called for gives None; and an add_receipt_data for a hash whose
\* add_receipt_data returned before raises.
C21_ReceiptRoundTrip ==
    /\ last_call.op = "get_receipt" =>
          IF added[last_call.arg] # Absent
          THEN /\ last_call.kind = "return"
               /\ MatchesData(last_call.receipt, added[last_call.arg].v)
          ELSE last_call.arg \notin failed => last_call.kind = "return_none"
    /\ (last_call.op = "add_receipt_data" /\ last_call.again) => last_call.kind = "raise"

\* The receipt of two logs, read after a second add_receipt_data for its
\* hash raised
C21_Witness ==
    /\ last_call.op = "get_receipt"
    /\ last_call.kind = "return"
    /\ last_call.arg \in failed
    /\ added[last_call.arg] # Absent
    /\ Len(last_call.receipt.logs) = 2
    /\ \E i \in 1..2 :
          /\ last_call.receipt.logs[i].log_index = 0
          /\ last_call.receipt.logs[i].topics =
                <<HexstringToBytes("0xa"), HexstringToBytes("0xb")>>
    /\ \E i \in 1..2 :
          /\ last_call.receipt.logs[i].log_index = 1
          /\ last_call.receipt.logs[i].removed
          /\ last_call.receipt.logs[i].topics =
                <<HexstringToBytes("0xb"), HexstringToBytes("0xa")>>

HasRows(tables, tx_hash) ==
    \/ \E r \in tables.ethtx_receipts : r.tx_hash = tx_hash
    \/ \E r \in tables.ethtx_receipt_logs : r.tx_hash = tx_hash
    \/ \E r \in tables.ethtx_receipt_log_topics : r.tx_hash = tx_hash

\* C22: a hash for which add_receipt_data has raised and never returned has
\* no receipt, log or topic row, neither as the connection sees the tables
\* nor as committed, and get_transaction_hashes_no_receipt reports it.
C22_AddReceiptAllOrNothing ==
    \A tx_hash \in failed :
        added[tx_hash] = Absent =>
            /\ ~HasRows(conn, tx_hash)
            /\ ~HasRows(committed, tx_hash)
            /\ last_call.op = "get_transaction_hashes_no_receipt"
                    => tx_hash \in last_call.hashes

--------------------------------------------------------------------------
(* Claims about search_assets_levenshtein (SpecSearch) *)

\* The rows scanned, in scan order: those of the assets query, then those
\* of the nfts query when nfts are searched
ScannedRows == search.v.assets \o (IF search.v.search_nfts THEN search.v.nfts ELSE <<>>)

IsAssetRow(p) == p <= Len(search.v.assets)

IsEthRow(p) ==
    IsAssetRow(p) /\ ScannedRows[p].identifier \in {ETH_IDENTIFIER, ETH2_IDENTIFIER}

\* The names of a row that are not null, casefolded
RowNames(p) ==
    LET row == ScannedRows[p]
        names == IF IsAssetRow(p) THEN {row.name, row.symbol}
                                  ELSE {row.name, row.collection_name}
    IN {Casefold(name.v) : name \in names \ {Null}}

Least(S) == CHOOSE m \in S : \A n \in S : m <= n

RowScore(p) ==
    Least({100} \cup {Levenshtein(search.v.substring_search, name) : name \in RowNames(p)})

\* The rows that give an entry: with treat_eth2_as_eth, of the rows of ETH
\* and ETH2 only the first scanned
EntryRows ==
    {p \in 1..Len(ScannedRows) :
        ~(search.v.treat_eth2_as_eth /\ IsEthRow(p) /\ \E q \in 1..(p - 1) : IsEthRow(q))}

RowEntry(p) ==
    IF ~IsAssetRow(p) THEN NftInfo(ScannedRows[p])
    ELSE IF search.v.treat_eth2_as_eth /\ IsEthRow(p) THEN EthInfo
    ELSE AssetInfo(ScannedRows[p])

\* How many entries come before the entry of row p: those of less score, and
\* those of equal score scanned before it
EntriesBefore(p) ==
    Cardinality({q \in EntryRows :
                    \/ RowScore(q) < RowScore(p)
                    \/ RowScore(q) = RowScore(p) /\ q < p})

--------------------------------------------------------------------------
(* Claims about _paginated_query (SpecPage) *)

PageEnds(g, i) ==
    g.pages[i].after_cursor = None \/ Len(g.pages[i].result) < g.limit

\* C1: the requests of one _paginated_query are made one after another, each
\* yielding one page; the generator is finished exactly when the last page
\* yielded has no cursor or is shorter than the limit, no earlier page is such
\* a page, the first request carries the fixed options and the limit, and every
\* later request carries in addition the cursor of the page before it.
C1_Pagination ==
    gen.pc # "idle" =>
      /\ Len(calls) = Len(gen.pages) + (IF gen.pc = "raised" THEN 1 ELSE 0)
      /\ \A i \in 1..Len(calls) :
            /\ calls[i].endpoint = gen.endpoint
            /\ calls[i].query_options.fixed = gen.query_options.fixed
            /\ calls[i].query_options.limit = gen.limit
            /\ calls[i].query_options.after =
                  (IF i = 1 THEN Missing ELSE gen.pages[i - 1].after_cursor)
      /\ \A i \in 1..(Len(gen.pages) - 1) : ~PageEnds(gen, i)
      /\ gen.pc = "done" <=> (gen.pages # <<>> /\ PageEnds(gen, Len(gen.pages)))
      /\ (gen.pc = "call" /\ gen.pages # <<>>)
            => gen.query_options.after = Last(gen.pages).after_cursor

\* A generator that made three requests, the second and third with the cursor
\* of the page before, and stopped on a short third page that carried a cursor.
C1_Witness ==
    /\ gen.pc = "done"
    /\ Len(calls) = 3
    /\ gen.limit = 2
    /\ Len(gen.pages[1].result) = 2
    /\ gen.pages[1].after_cursor = "c1"
    /\ calls[2].query_options.after = "c1"
    /\ gen.pages[2].after_cursor = "c2"
    /\ calls[3].query_options.after = "c2"
    /\ Len(gen.pages[3].result) = 1
    /\ gen.pages[3].after_cursor = "c1"

--------------------------------------------------------------------------
(* Claims about _api_query (SpecApi) *)

Count429(s) == Cardinality({i \in 1..Len(s) : s[i].status = TOO_MANY_REQUESTS})
ApiSigned == ~IsSigned(endpoint) \/ secret_ok
ApiInLoop == api_pc \in {"loop", "interpret"} \/ (api_pc = "done" /\ ApiSigned)

\* C2: one _api_query call sends at most retry-limit requests; every 429
\* response takes one off the retry counter; only the last response of a call
\* can be anything but a 429; and a call that ends on a 429 response (the
\* counter exhausted) ends with RemoteError.
C2_RetryBounded ==
    /\ Len(received) <= retry_limit
    /\ \A i \in 1..(Len(received) - 1) : received[i].status = TOO_MANY_REQUESTS
    /\ ApiInLoop => retries_left = retry_limit - Count429(received)
    /\ ApiInLoop => retries_left >= 0
    /\ (api_pc = "interpret" /\ received # <<>>
            /\ Last(received).status = TOO_MANY_REQUESTS) => retries_left = 0
    /\ (api_pc = "done" /\ received # <<>>
            /\ Last(received).status = TOO_MANY_REQUESTS)
        => api_outcome.kind = "RemoteError"

\* A call that used up a retry limit of at least two on 429 responses.
C2_Witness ==
    /\ api_pc = "done"
    /\ retry_limit >= 2
    /\ Len(received) = retry_limit
    /\ Count429(received) = retry_limit
    /\ retries_left = 0
    /\ api_outcome.kind = "RemoteError"

DocumentedOutcomes == {"return", "RemoteError", "CoinbaseProPermissionError"}

\* C3: every _api_query call ends by returning, by raising RemoteError or by
\* raising CoinbaseProPermissionError. Stated here for the retry limits of at
\* least one, where the call has a response to interpret; the claim extends
\* it to a retry limit of 0.
C3_OnlyDocumentedOutcomes ==
    (api_pc = "done" /\ retry_limit >= 1) => api_outcome.kind \in DocumentedOutcomes

\* C4: a 400 response saying 'invalid signature' and any 403 response end the
\* call with CoinbaseProPermissionError, a 400 response with another message
\* ends it with RemoteError, and no request follows a 400 or 403 response.
C4_PermissionErrors ==
    /\ \A i \in 1..Len(received) :
            received[i].status \in {BAD_REQUEST, FORBIDDEN} => i = Len(received)
    /\ (api_pc = "done" /\ received # <<>>) =>
          LET r == Last(received) IN
            /\ r.status = FORBIDDEN
                  => api_outcome.kind = "CoinbaseProPermissionError"
            /\ (r.status = BAD_REQUEST /\ IsJsonDict(r.body)
                    /\ r.body.message = INVALID_SIGNATURE)
                  => api_outcome.kind = "CoinbaseProPermissionError"
            /\ (r.status = BAD_REQUEST /\ IsJsonDict(r.body)
                    /\ r.body.message \notin {INVALID_SIGNATURE, Missing})
                  => api_outcome.kind = "RemoteError"

\* A call that was rate-limited once and then refused with 403.
C4_Witness ==
    /\ api_pc = "done"
    /\ Len(received) = 2
    /\ received[1].status = TOO_MANY_REQUESTS
    /\ received[2].status = FORBIDDEN
    /\ api_outcome.kind = "CoinbaseProPermissionError"

==========================================================================
